---- MODULE Spec2Model ----
(***************************************************************************)
(* Indigo: the reconciliation of typed records against the document store  *)
(* (indigo/database/database.py), the FileRecord type                      *)
(* (indigo/systems/purpose/models.py), the directory walk and its rule     *)
(* resolution (indigo/systems/purpose/file_collector.py) and the caller    *)
(* that gates reconciliation on the walk (purpose_system.py).              *)
(***************************************************************************)
EXTENDS Integers, Sequences, FiniteSets, TLC

\* ------------------------------------------------------------------ bounds
MaxId == 4       \* distinct ids of records of the stub type
MaxPath == 2     \* distinct file paths, the ids of FileRecords
MaxItems == 3    \* length of the sequence handed to save_update_delete

\* Two values are enough to tell "same" from "different" field values.
Stamps == {"t1", "t2"}
Titles == {"a", "b"}
Missing == "missing"

RecordTypes == {"DatabaseRecordStub", "FileRecord"}

\* A record: its id, its last-modified timestamp and the rest of its content.
\* For the stub type of the tests the timestamp field stands for its payload
\* fields (bool_p, datetime_p, ...) and the title is fixed.
IdsOf(c) == IF c = "FileRecord" THEN 1..MaxPath ELSE 1..MaxId
TitlesOf(c) == IF c = "FileRecord" THEN Titles ELSE {"-"}
RecordsOf(c) == [id_ : IdsOf(c), updated_at : Stamps, title : TitlesOf(c)]

Range(s) == {s[i] : i \in 1..Len(s)}
IdSet(S) == {r.id_ : r \in S}
SeqIds(s) == {s[i].id_ : i \in 1..Len(s)}
SeqsUpTo(S, n) == UNION {[1..k -> S] : k \in 0..n}

\* All orders in which the members of a finite set can be listed.
RECURSIVE Orders(_)
Orders(S) ==
    IF S = {} THEN {<<>>}
    ELSE UNION {{<<x>> \o o : o \in Orders(S \ {x})} : x \in S}

VARIABLES
    cls,          \* the record type being reconciled
    collection,   \* the documents persisted in the collection of cls
    mtime,        \* st_mtime of the file at each path, or Missing
    life,         \* history: what the reconciliation runs did to each id
    was,          \* life as it was when the call started
    items,        \* the sequence handed to the running/last call
    existing,     \* the documents persisted when the call started
    saved, updated, deleted, unchanged,   \* the four returned sequences
    outcome,      \* "idle", "returned" or the exception the call raised
    repeat,       \* the call directly follows a returned call with the same items
    ops           \* the store mutations the call issued, in order

dbVars == <<cls, collection, mtime, life, was, items, existing,
            saved, updated, deleted, unchanged, outcome, repeat, ops>>

VARIABLES
    walk,         \* collect_files: "idle", "walking", "returned" or the exception
    location,     \* the directory collect_files was called with
    pending,      \* the directories os.walk has still to yield, next first
    walked,       \* number of directories the loop has handled
    directory,    \* the Directory of the last iteration, after its validators
    selected,     \* the rule set and list _run_validators chose for it
    ran,          \* the validators _run_validators called on it, in order
    all_records, all_errors,   \* the accumulators of collect_files
    found,        \* history: ids of all records the visited directories produced
    present,      \* history: the location was a directory when the walk began
    listed,       \* history: the names os.walk listed as files of that directory
    failures,     \* history: files listed so far that do not match or parse
    removed,      \* the files the walk removed from the disk
    result,       \* the FileCollectorResult returned
    caller,       \* who called collect_files
    answer,       \* what PurposeSystem._collect_files did with the result
    file_errors_log,   \* the content of Config.router.file_errors_log
    before,       \* the collection as it was when _collect_files started
    calls,        \* save_update_delete calls made by the running _collect_files
    collections   \* number of _collect_files runs started

walkVars == <<walk, location, pending, walked, directory, selected, ran,
              all_records, all_errors, found, present, listed, failures,
              removed, result>>

systemVars == <<caller, answer, file_errors_log, before, calls, collections>>

VARIABLES
    constructed,  \* the DeterministicDatabaseRecord constructions made so far
    request,      \* the store operation called last: <<name, id>>
    link_,        \* Linker._link: NoLink or the linked type and ids
    extra,        \* Linker.extra
    linked,       \* history: the arguments of the last link call, if still set
    resolved      \* the last Linker.resolve call and what it returned or raised

VARIABLES
    _on,          \* SystemABC._on of the system
    pc,           \* where start is: "constructed", "while", "input",
                  \* "returned", or the exception that left it
    read,         \* history: the strings Typer.input returned, in order
    handled,      \* history: the arguments of the _handle_ask calls, in order
    exited        \* history: what the exit calls found, in order

loopVars == <<_on, pc, read, handled, exited>>

toolVars ==
    <<constructed, request, link_, extra, linked, resolved, loopVars>>

vars == <<dbVars, walkVars, systemVars, toolVars>>

\* The values of the walk's variables while no collect_files call is running.
NoDirectory ==
    [path |-> <<>>, subdirectories |-> <<>>, filepaths |-> <<>>,
     file_records |-> <<>>, file_tags |-> <<>>, errors |-> <<>>]

NoSelection ==
    [rule_set |-> [kind |-> "none", key |-> <<>>],
     are_child_validators |-> FALSE]

NoResult == [records |-> <<>>, errors |-> <<>>]

NoWalk ==
    /\ walk = "idle"
    /\ location = <<>>
    /\ pending = <<>>
    /\ walked = 0
    /\ directory = NoDirectory
    /\ selected = NoSelection
    /\ ran = <<>>
    /\ all_records = <<>> /\ all_errors = <<>>
    /\ found = {}
    /\ present = FALSE
    /\ listed = <<>>
    /\ failures = 0
    /\ removed = {}
    /\ result = NoResult

NoCollection ==
    /\ caller = "none"
    /\ answer = "idle"
    /\ file_errors_log = <<>>
    /\ before = {}
    /\ calls = 0
    /\ collections = 0

\* The values of the remaining variables while nothing has been constructed,
\* requested or linked. Linker._link is None and Linker.extra is {}.
NoLink == [type_ |-> "None", ids |-> <<>>]
NoResolve ==
    [type_ |-> "None",
     index |-> [kind |-> "None", n |-> 0, s |-> <<>>, p |-> <<>>],
     returned |-> "None", raised |-> "none"]

\* SystemABC.__init__: the system is off and start has not been called.
NoLoop ==
    /\ _on = FALSE
    /\ pc = "constructed"
    /\ read = <<>>
    /\ handled = <<>>
    /\ exited = <<>>

NoTools ==
    /\ NoLoop
    /\ constructed = <<>>
    /\ request = <<>>
    /\ link_ = NoLink
    /\ extra = {}
    /\ linked = NoLink
    /\ resolved = NoResolve

\* ------------------------------------------------------- record types
\* cls(**record): FileRecord.__init__ stats the path and overwrites the
\* created/updated timestamps of the document before validation; os.stat
\* raises FileNotFoundError when the file is gone.
CanConstruct(c, doc, fs) == c = "FileRecord" => fs[doc.id_] # Missing

Construct(c, doc, fs) ==
    IF c = "FileRecord" THEN [doc EXCEPT !.updated_at = fs[doc.id_]] ELSE doc

\* item == existing_item. FileRecord.__eq__ compares id and updated_at only;
\* the stub type keeps pydantic's field-wise equality.
Eq(c, a, b) ==
    IF c = "FileRecord"
    THEN a.id_ = b.id_ /\ a.updated_at = b.updated_at
    ELSE a = b

\* ------------------------------------------------------- Database
exists(coll, id) == \E d \in coll : d.id_ = id

find_one(coll, id) == CHOOSE d \in coll : d.id_ = id

\* Database.list: every persisted document rebuilt as a record.
list(c, coll, fs) == {Construct(c, d, fs) : d \in coll}

\* The locals of one save_update_delete call.
StartOfCall(c, coll, fs) ==
    [coll |-> coll,
     existing_items_by_id |-> list(c, coll, fs),
     saved |-> <<>>, updated |-> <<>>, unchanged |-> <<>>, deleted |-> <<>>,
     ops |-> <<>>,
     raised |-> IF \A d \in coll : CanConstruct(c, d, fs)
                THEN "none" ELSE "FileNotFoundError"]

\* A wrong update: the existence check passes and nothing is written.
updateLosesWrite(st, item) ==
    IF ~exists(st.coll, item.id_) THEN [st EXCEPT !.raised = "DatabaseError"]
    ELSE [st EXCEPT !.ops = Append(@, <<"update", item.id_>>)]

\* Database.update behind validate_entity(exists=True): $set of the dump.
update(st, item) ==
    IF ~exists(st.coll, item.id_) THEN [st EXCEPT !.raised = "DatabaseError"]
    ELSE [st EXCEPT !.coll = {d \in @ : d.id_ # item.id_} \cup {item},
                    !.ops = Append(@, <<"update", item.id_>>)]

\* A wrong save: the document is inserted without the existence check.
saveWithoutCheck(st, item) ==
    [st EXCEPT !.coll = @ \cup {item},
               !.ops = Append(@, <<"save", item.id_>>)]

\* Database.save behind validate_entity(exists=False): insert_one of the dump.
save(st, item) ==
    IF exists(st.coll, item.id_) THEN [st EXCEPT !.raised = "DatabaseError"]
    ELSE [st EXCEPT !.coll = @ \cup {item},
                    !.ops = Append(@, <<"save", item.id_>>)]

\* Database.delete: DatabaseError unless the id exists.
delete(st, id) ==
    IF ~exists(st.coll, id) THEN [st EXCEPT !.raised = "DatabaseError"]
    ELSE [st EXCEPT !.coll = {d \in @ : d.id_ # id},
                    !.ops = Append(@, <<"delete", id>>)]

\* A wrong body of the loop: every seen item is reported as unchanged.
ProcessItemNeverUpdates(c, fs, st, item) ==
    IF exists(st.coll, item.id_)
    THEN [st EXCEPT !.existing_items_by_id = {e \in @ : e.id_ # item.id_},
                    !.unchanged = Append(@, item)]
    ELSE [save(st, item) EXCEPT !.saved = Append(@, item)]

\* A wrong body of the loop: a seen item stays in existing_items_by_id.
ProcessItemKeepsSeen(c, fs, st, item) ==
    IF exists(st.coll, item.id_)
    THEN IF Eq(c, item, Construct(c, find_one(st.coll, item.id_), fs))
         THEN [st EXCEPT !.unchanged = Append(@, item)]
         ELSE [update(st, item) EXCEPT !.updated = Append(@, item)]
    ELSE [save(st, item) EXCEPT !.saved = Append(@, item)]

\* A wrong body of the loop: an unseen item is reported but never inserted.
ProcessItemForgetsSave(c, fs, st, item) ==
    IF exists(st.coll, item.id_)
    THEN IF ~\E e \in st.existing_items_by_id : e.id_ = item.id_
         THEN [st EXCEPT !.raised = "KeyError"]
         ELSE LET seen == [st EXCEPT !.existing_items_by_id =
                                          {e \in @ : e.id_ # item.id_}]
              IN  IF Eq(c, item, Construct(c, find_one(st.coll, item.id_), fs))
                  THEN [seen EXCEPT !.unchanged = Append(@, item)]
                  ELSE [update(seen, item) EXCEPT !.updated = Append(@, item)]
    ELSE [st EXCEPT !.saved = Append(@, item)]

\* A wrong body of the loop: an inserted item is appended to updated.
ProcessItemReportsSaveAsUpdate(c, fs, st, item) ==
    IF exists(st.coll, item.id_)
    THEN IF ~\E e \in st.existing_items_by_id : e.id_ = item.id_
         THEN [st EXCEPT !.raised = "KeyError"]
         ELSE LET seen == [st EXCEPT !.existing_items_by_id =
                                          {e \in @ : e.id_ # item.id_}]
              IN  IF Eq(c, item, Construct(c, find_one(st.coll, item.id_), fs))
                  THEN [seen EXCEPT !.unchanged = Append(@, item)]
                  ELSE [update(seen, item) EXCEPT !.updated = Append(@, item)]
    ELSE [save(st, item) EXCEPT !.updated = Append(@, item)]

\* A wrong body of the loop: an unchanged item is written all the same.
ProcessItemRewritesUnchanged(c, fs, st, item) ==
    IF exists(st.coll, item.id_)
    THEN LET doc == find_one(st.coll, item.id_)
         IN  IF ~CanConstruct(c, doc, fs)
             THEN [st EXCEPT !.raised = "FileNotFoundError"]
             ELSE IF ~\E e \in st.existing_items_by_id : e.id_ = item.id_
             THEN [st EXCEPT !.raised = "KeyError"]
             ELSE LET seen == [st EXCEPT !.existing_items_by_id =
                                              {e \in @ : e.id_ # item.id_}]
                  IN  IF Eq(c, item, Construct(c, doc, fs))
                      THEN [update(seen, item) EXCEPT !.unchanged = Append(@, item)]
                      ELSE [update(seen, item) EXCEPT !.updated = Append(@, item)]
    ELSE [save(st, item) EXCEPT !.saved = Append(@, item)]

\* One pass of "for item in items": retrieve, then del / compare / update,
\* or save.
ProcessItem(c, fs, st, item) ==
    IF exists(st.coll, item.id_)
    THEN LET doc == find_one(st.coll, item.id_)
         IN  IF ~CanConstruct(c, doc, fs)
             THEN [st EXCEPT !.raised = "FileNotFoundError"]
             ELSE IF ~\E e \in st.existing_items_by_id : e.id_ = item.id_
             THEN [st EXCEPT !.raised = "KeyError"]
             ELSE LET seen == [st EXCEPT !.existing_items_by_id =
                                              {e \in @ : e.id_ # item.id_}]
                  IN  IF Eq(c, item, Construct(c, doc, fs))
                      THEN [seen EXCEPT !.unchanged = Append(@, item)]
                      ELSE [update(seen, item) EXCEPT !.updated = Append(@, item)]
    ELSE [save(st, item) EXCEPT !.saved = Append(@, item)]

RECURSIVE ProcessItems(_, _, _, _)
ProcessItems(c, fs, st, its) ==
    IF its = <<>> \/ st.raised # "none" THEN st
    ELSE ProcessItems(c, fs, ProcessItem(c, fs, st, Head(its)), Tail(its))

\* A wrong delete loop: the leftovers are reported and stay persisted.
RECURSIVE DeleteLeftoversKeepsDocs(_, _)
DeleteLeftoversKeepsDocs(st, order) ==
    IF order = <<>> \/ st.raised # "none" THEN st
    ELSE DeleteLeftoversKeepsDocs(
             [st EXCEPT !.deleted = Append(@, Head(order))], Tail(order))

\* "for id_, item in existing_items_by_id.items()": delete, then report.
RECURSIVE DeleteLeftovers(_, _)
DeleteLeftovers(st, order) ==
    IF order = <<>> \/ st.raised # "none" THEN st
    ELSE DeleteLeftovers(
             [delete(st, Head(order).id_) EXCEPT !.deleted = Append(@, Head(order))],
             Tail(order))

\* The whole call, the leftovers deleted in the order the dict lists them.
save_update_delete(c, coll, fs, its, order) ==
    DeleteLeftovers(ProcessItems(c, fs, StartOfCall(c, coll, fs), its), order)

\* The leftovers of a call: what the loop over items leaves in the dict.
Leftovers(c, coll, fs, its) ==
    LET st == ProcessItems(c, fs, StartOfCall(c, coll, fs), its)
    IN  IF st.raised = "none" THEN st.existing_items_by_id ELSE {}

\* History of an id: "absent" until a run inserts it, "live" while it is
\* persisted, "deleted" once a run has deleted it.
RECURSIVE LifeAfter(_, _)
LifeAfter(l, log) ==
    IF log = <<>> THEN l
    ELSE LET op == Head(log)
             l1 == CASE op[1] = "save" -> [l EXCEPT ![op[2]] = "live"]
                     [] op[1] = "delete" -> [l EXCEPT ![op[2]] = "deleted"]
                     [] OTHER -> l
         IN  LifeAfter(l1, Tail(log))

\* ------------------------------------------------------- actions
RunCall(its, again) ==
    \E order \in Orders(Leftovers(cls, collection, mtime, its)) :
        LET st == save_update_delete(cls, collection, mtime, its, order)
            ok == st.raised = "none"
        IN  /\ items' = its
            /\ existing' = collection
            /\ collection' = st.coll
            /\ ops' = st.ops
            /\ life' = LifeAfter(life, st.ops)
            /\ was' = life
            /\ outcome' = IF ok THEN "returned" ELSE st.raised
            /\ saved' = IF ok THEN st.saved ELSE <<>>
            /\ updated' = IF ok THEN st.updated ELSE <<>>
            /\ deleted' = IF ok THEN st.deleted ELSE <<>>
            /\ unchanged' = IF ok THEN st.unchanged ELSE <<>>
            /\ repeat' = again
            /\ UNCHANGED <<toolVars, cls, mtime, walkVars, systemVars>>

\* A caller reconciles a sequence of records of the type.
Reconcile ==
    /\ outcome = "idle"
    /\ \E its \in SeqsUpTo(RecordsOf(cls), MaxItems) : RunCall(its, FALSE)

\* The caller runs the same call again at once.
ReconcileAgain ==
    /\ outcome = "returned"
    /\ ~repeat
    /\ RunCall(items, TRUE)

\* The caller is done with what the call returned or raised.
Finish ==
    /\ outcome # "idle"
    /\ outcome' = "idle"
    /\ items' = <<>>
    /\ existing' = {}
    /\ saved' = <<>> /\ updated' = <<>> /\ deleted' = <<>> /\ unchanged' = <<>>
    /\ ops' = <<>>
    /\ repeat' = FALSE
    /\ was' = life
    /\ UNCHANGED <<toolVars, cls, collection, mtime, life, walkVars, systemVars>>

\* Outside the program a file is edited, created or removed.
TouchFile ==
    /\ outcome = "idle"
    /\ cls = "FileRecord"
    /\ \E p \in IdsOf(cls), t \in Stamps \cup {Missing} :
          /\ mtime[p] # t
          /\ mtime' = [mtime EXCEPT ![p] = t]
    /\ UNCHANGED <<toolVars, cls, collection, life, was, items, existing,
                   saved, updated, deleted, unchanged, outcome, repeat, ops,
                   walkVars, systemVars>>

InitDatabase ==
    /\ cls \in RecordTypes
    /\ collection = {}
    /\ mtime = [p \in IdsOf(cls) |-> Missing]
    /\ life = [i \in IdsOf(cls) |-> "absent"]
    /\ was = [i \in IdsOf(cls) |-> "absent"]
    /\ items = <<>>
    /\ existing = {}
    /\ saved = <<>> /\ updated = <<>> /\ deleted = <<>> /\ unchanged = <<>>
    /\ outcome = "idle"
    /\ repeat = FALSE
    /\ ops = <<>>
    /\ NoWalk
    /\ NoCollection
    /\ NoTools

NextDatabase == Reconcile \/ ReconcileAgain \/ Finish \/ TouchFile

SpecDatabase == InitDatabase /\ [][NextDatabase]_vars

\* ------------------------------------------------------- reconciliation claims
\* The persisted record of an id as Database.retrieve returned it to the call.
PersistedRecord(id) == Construct(cls, find_one(existing, id), mtime)

Persisted(id) == exists(existing, id)

\* C2: a call that returns classifies every incoming record: not persisted ->
\* inserted and in saved; persisted and unequal to the persisted record ->
\* written and in updated; persisted and equal -> in unchanged; and every
\* persisted record whose id is not incoming is deleted and in deleted.
C2_ClassifiesEveryRecord ==
    outcome = "returned" =>
        /\ Len(saved) + Len(updated) + Len(unchanged) = Len(items)
        /\ Range(saved) = {it \in Range(items) : ~Persisted(it.id_)}
        /\ Range(updated) =
               {it \in Range(items) :
                    Persisted(it.id_) /\ ~Eq(cls, it, PersistedRecord(it.id_))}
        /\ Range(unchanged) =
               {it \in Range(items) :
                    Persisted(it.id_) /\ Eq(cls, it, PersistedRecord(it.id_))}
        /\ Range(deleted) =
               {PersistedRecord(d.id_) : d \in {e \in existing : e.id_ \notin SeqIds(items)}}
        /\ Len(deleted) = Cardinality(Range(deleted))
        /\ \A it \in Range(saved) \cup Range(updated) : it \in collection
        /\ \A d \in Range(deleted) : ~exists(collection, d.id_)

\* The scenario of test_save_update_delete: one record in each of the four.
C2_Witness ==
    /\ outcome = "returned"
    /\ cls = "DatabaseRecordStub"
    /\ Cardinality(existing) = 3
    /\ Len(saved) = 1 /\ Len(updated) = 1 /\ Len(deleted) = 1 /\ Len(unchanged) = 1

\* C3: the four returned sequences are pairwise disjoint by id and their ids
\* together are the ids persisted at the start and the incoming ids.
C3_PartitionByIds ==
    outcome = "returned" =>
        /\ SeqIds(saved) \cap SeqIds(updated) = {}
        /\ SeqIds(saved) \cap SeqIds(deleted) = {}
        /\ SeqIds(saved) \cap SeqIds(unchanged) = {}
        /\ SeqIds(updated) \cap SeqIds(deleted) = {}
        /\ SeqIds(updated) \cap SeqIds(unchanged) = {}
        /\ SeqIds(deleted) \cap SeqIds(unchanged) = {}
        /\ SeqIds(saved) \cup SeqIds(updated) \cup SeqIds(deleted) \cup SeqIds(unchanged)
               = IdSet(existing) \cup SeqIds(items)

C3_Witness ==
    /\ outcome = "returned"
    /\ Len(deleted) = 2
    /\ Len(saved) = 1
    /\ Len(unchanged) + Len(updated) = 1

\* C4: when the call has returned, the persisted ids are exactly the incoming
\* ids, whatever was persisted before.
C4_FullReplace ==
    outcome = "returned" => IdSet(collection) = SeqIds(items)

C4_Witness ==
    /\ outcome = "returned"
    /\ Cardinality(existing) >= 2
    /\ Len(items) >= 2
    /\ IdSet(existing) \cap SeqIds(items) = {}

\* The files are as they were when the incoming records were read from them.
FilesAsCollected ==
    cls = "FileRecord" =>
        \A i \in 1..Len(items) : mtime[items[i].id_] = items[i].updated_at

\* C5: the second of two calls in a row with the same incoming sequence, the
\* store and the files untouched, saves, updates and deletes nothing, reports
\* every incoming record as unchanged and leaves the store as it was.
C5_SecondRunChangesNothing ==
    (outcome = "returned" /\ repeat /\ FilesAsCollected) =>
        /\ saved = <<>> /\ updated = <<>> /\ deleted = <<>>
        /\ unchanged = items
        /\ collection = existing
        /\ ops = <<>>

C5_Witness ==
    /\ outcome = "returned"
    /\ repeat
    /\ FilesAsCollected
    /\ Len(items) >= 2
    /\ \E i \in 1..Len(items) : life[items[i].id_] = "live" /\ was[items[i].id_] = "live"

\* C6 (as claimed): a FileRecord whose id is persisted is reported as updated
\* exactly when the timestamp stored for the id differs from the incoming
\* timestamp, and as unchanged exactly when the two are equal. Stated for the
\* runs whose incoming records carry the timestamps the files have now.
C6_StoredTimestampDecides ==
    (outcome = "returned" /\ cls = "FileRecord" /\ FilesAsCollected) =>
        \A it \in Range(items) :
            Persisted(it.id_) =>
                LET stored == find_one(existing, it.id_).updated_at
                IN  /\ it \in Range(updated) <=> stored # it.updated_at
                    /\ it \in Range(unchanged) <=> stored = it.updated_at

\* C7: a run reports an id as created only if it was not persisted (never
\* created, or deleted since), as updated, unchanged or deleted only if an
\* earlier run created it and none deleted it since, and a deleted id that is
\* incoming again is reported as created.
C7_Lifecycle ==
    outcome = "returned" =>
        \A id \in IdsOf(cls) :
            /\ id \in SeqIds(saved) =>
                   ~Persisted(id) /\ was[id] \in {"absent", "deleted"} /\ life[id] = "live"
            /\ id \in SeqIds(updated) \cup SeqIds(unchanged) =>
                   was[id] = "live" /\ life[id] = "live"
            /\ id \in SeqIds(deleted) => was[id] = "live" /\ life[id] = "deleted"
            /\ (was[id] = "deleted" /\ id \in SeqIds(items)) => id \in SeqIds(saved)
            /\ (was[id] = "absent" /\ id \notin SeqIds(items)) => life[id] = "absent"

C7_Witness ==
    /\ outcome = "returned"
    /\ \E id \in IdsOf(cls) : was[id] = "deleted" /\ id \in SeqIds(saved)
    /\ \E id \in IdsOf(cls) : was[id] = "live" /\ id \in SeqIds(deleted)

\* ------------------------------------------------------- names and paths
\* A name is the sequence of its characters and a path the sequence of its
\* names, so that startswith, endswith, "/".join and re.match are computed.

indigo_debug == <<".", "i", "n", "d", "i", "g", "o", ".", "d", "e", "b", "u", "g">>
notes == <<"n", "o", "t", "e", "s">>
purpose == <<"p", "u", "r", "p", "o", "s", "e">>
essays == <<"e", "s", "s", "a", "y", "s">>
essays_bg == <<"e", "s", "s", "a", "y", "s", "_", "b", "g">>
thoughts == <<"t", "h", "o", "u", "g", "h", "t", "s">>
studies == <<"s", "t", "u", "d", "i", "e", "s">>
archive == <<"a", "r", "c", "h", "i", "v", "e">>
personal == <<"p", "e", "r", "s", "o", "n", "a", "l">>
y2021 == <<"2", "0", "2", "1">>
y1999 == <<"1", "9", "9", "9">>

\* File names of the kinds of file a directory of notes can hold.
root_md == <<"_", "r", "o", "o", "t", ".", "m", "d">>
index_md == <<"_", "i", "n", "d", "e", "x", ".", "m", "d">>
note_md == <<"n", "o", "t", "e", ".", "m", "d">>
essay_md == <<"e", "s", "s", "a", "y", ".", "m", "d">>
thoughts_2022_md == <<"2", "0", "2", "2", ".", "0", "1", "_", "t", ".", "m", "d">>
thoughts_2021_md == <<"2", "0", "2", "1", ".", "0", "1", "_", "t", ".", "m", "d">>
broken_md == <<"b", "r", "o", "k", "e", "n", ".", "m", "d">>
scan_png == <<"s", "c", "a", "n", ".", "p", "n", "g">>
DS_Store == <<".", "D", "S", "_", "S", "t", "o", "r", "e">>

md_suffix == <<".", "m", "d">>
archived_prefix == <<"a", "r", "c", "h", "i", "v", "e", "d", "_">>
slash == <<"/">>
\* str(date_utils.now().year): the year of the clock, 2022 in the tests.
current_year == <<"2", "0", "2", "2">>
Digits == {"0", "1", "2", "3", "4", "5", "6", "7", "8", "9"}
LineFeed == "\n"

StartsWith(s, p) == Len(p) <= Len(s) /\ SubSeq(s, 1, Len(p)) = p
EndsWith(s, p) == Len(p) <= Len(s) /\ SubSeq(s, Len(s) - Len(p) + 1, Len(s)) = p
IsPrefix(p, s) == StartsWith(s, p)

\* sep.join(parts)
RECURSIVE join(_, _)
join(sep, parts) ==
    IF parts = <<>> THEN <<>>
    ELSE IF Len(parts) = 1 THEN parts[1]
    ELSE parts[1] \o sep \o join(sep, Tail(parts))

\* Router.notes_directory in the debug configuration: <root_directory>/notes.
notes_directory == <<indigo_debug, notes>>

\* Path.name and Path.parent of a path at or below the notes directory.
path_name(path) == path[Len(path)]
path_parent(path) == SubSeq(path, 1, Len(path) - 1)

\* FileCollector.relative_to_root: the parts of the path after those of the
\* notes directory (Path.relative_to raises ValueError for a path outside
\* it; every walk of the model starts at or below the notes directory).
relative_to_root(path) == SubSeq(path, Len(notes_directory) + 1, Len(path))

\* re.match(r"^[2-9][0-9]{3}$", name); $ also matches before a final newline.
re_match_year(n) ==
    /\ Len(n) \in {4, 5}
    /\ n[1] \in Digits \ {"0", "1"}
    /\ \A i \in 2..4 : n[i] \in Digits
    /\ Len(n) = 5 => n[5] = LineFeed

\* ------------------------------------------------------- validators
\* An error string: the validator or parser step that wrote it, the name it
\* quotes and, for the parent-year validator, the year it quotes.
Error(by, at, about) == [by |-> by, at |-> at, about |-> about]

\* What a validator call does: the errors it appends, or the exception.
Appends(errors) == [errors |-> errors, raised |-> "none"]
Raises(exception) == [errors |-> <<>>, raised |-> exception]

\* One error for every member of the sequence that is bad: the loops of
\* the validators append the same string once for each of them.
ErrorsFor(bad, e) == [i \in 1..Len(bad) |-> e]

no_files_validator(d) ==
    IF d.filepaths = <<>>
    THEN Appends(<<Error("no_files_validator", path_name(d.path), <<>>)>>)
    ELSE Appends(<<>>)

non_markdown_files_validator(d) ==
    LET Bad(file) == ~EndsWith(path_name(file), md_suffix)
    IN  Appends(ErrorsFor(SelectSeq(d.filepaths, Bad),
            Error("non_markdown_files_validator", path_name(d.path), <<>>)))

no_subdirectories_validator(d) ==
    IF d.subdirectories # <<>>
    THEN Appends(<<Error("no_subdirectories_validator", path_name(d.path), <<>>)>>)
    ELSE Appends(<<>>)

\* A wrong count: only a directory without any root file is in error.
root_file_validatorAtLeastOne(d) ==
    LET IsRoot(tag) == tag = "root_file"
        root_file_count == Len(SelectSeq(d.file_tags, IsRoot))
    IN  IF root_file_count < 1
        THEN Appends(<<Error("root_file_validator", path_name(d.path), <<>>)>>)
        ELSE Appends(<<>>)

root_file_validator(d) ==
    LET IsRoot(tag) == tag = "root_file"
        root_file_count == Len(SelectSeq(d.file_tags, IsRoot))
    IN  IF root_file_count # 1
        THEN Appends(<<Error("root_file_validator", path_name(d.path), <<>>)>>)
        ELSE Appends(<<>>)

no_root_file_validator(d) ==
    IF \E i \in 1..Len(d.file_tags) : d.file_tags[i] = "root_file"
    THEN Appends(<<Error("no_root_file_validator", path_name(d.path), <<>>)>>)
    ELSE Appends(<<>>)

only_root_file_validator(d) ==
    IF d.file_tags # <<"root_file">>
    THEN Appends(<<Error("only_root_file_validator", path_name(d.path), <<>>)>>)
    ELSE Appends(<<>>)

\* The module never imports NoteFile: the tuple (RootFile.FILE_TAG,
\* NoteFile.FILE_TAG) is built in the first iteration of the loop over the
\* tags, and building it raises NameError.
notes_directory_validator(d) ==
    IF d.file_tags = <<>> THEN Appends(<<>>) ELSE Raises("NameError")

allowed_file_tags_validator(d, allowed_tags) ==
    IF Range(d.file_tags) # allowed_tags
    THEN Appends(<<Error("allowed_file_tags_validator", path_name(d.path), <<>>)>>)
    ELSE Appends(<<>>)

yarly_directory_current_year_validator(d) ==
    LET Bad(file) == ~StartsWith(path_name(file), current_year)
    IN  Appends(ErrorsFor(SelectSeq(d.filepaths, Bad),
            Error("yarly_directory_current_year_validator",
                  path_name(d.path), <<>>)))

yearly_directory_subdirectories_validator(d) ==
    LET Bad(subdirectory) == ~re_match_year(path_name(subdirectory))
    IN  Appends(ErrorsFor(SelectSeq(d.subdirectories, Bad),
            Error("yearly_directory_subdirectories_validator",
                  path_name(d.path), <<>>)))

yearly_directory_parent_year_validator(d) ==
    LET parent_year == path_name(path_parent(d.path))
        Bad(file) == ~StartsWith(path_name(file), parent_year)
    IN  Appends(ErrorsFor(SelectSeq(d.filepaths, Bad),
            Error("yearly_directory_parent_year_validator",
                  path_name(d.path), parent_year)))

archive_validator(d) ==
    LET Bad(file) == ~StartsWith(path_name(file), archived_prefix)
    IN  Appends(ErrorsFor(SelectSeq(d.filepaths, Bad),
            Error("archive_validator", path_name(d.path), <<>>)))

\* A validator as the lists hold it: the function and, for a
\* functools.partial of allowed_file_tags_validator, its allowed tags.
V(f) == [f |-> f, allowed_tags |-> {}]
partial(f, allowed_tags) == [f |-> f, allowed_tags |-> allowed_tags]

\* validator(directory)
call(v, d) ==
    CASE v.f = "no_files_validator" -> no_files_validator(d)
      [] v.f = "non_markdown_files_validator" -> non_markdown_files_validator(d)
      [] v.f = "no_subdirectories_validator" -> no_subdirectories_validator(d)
      [] v.f = "root_file_validator" -> root_file_validator(d)
      [] v.f = "no_root_file_validator" -> no_root_file_validator(d)
      [] v.f = "only_root_file_validator" -> only_root_file_validator(d)
      [] v.f = "notes_directory_validator" -> notes_directory_validator(d)
      [] v.f = "allowed_file_tags_validator" ->
             allowed_file_tags_validator(d, v.allowed_tags)
      [] v.f = "yarly_directory_current_year_validator" ->
             yarly_directory_current_year_validator(d)
      [] v.f = "yearly_directory_subdirectories_validator" ->
             yearly_directory_subdirectories_validator(d)
      [] v.f = "yearly_directory_parent_year_validator" ->
             yearly_directory_parent_year_validator(d)
      [] v.f = "archive_validator" -> archive_validator(d)

\* ------------------------------------------------------- rule sets
\* The two validators DirectoryValidators.__init__ appends to its lists.
baseline == <<V("no_files_validator"), V("non_markdown_files_validator")>>

\* DirectoryValidators.__init__: with apply_validators_to_subdirectories the
\* subdirectory list is replaced by the argument list followed by the
\* validators of the directory that the argument list does not hold.
DirectoryValidators(validators, subdirectory_validators, apply_to_subdirectories) ==
    LET NotListed(validator) == validator \notin Range(subdirectory_validators)
    IN  [validators |-> validators \o baseline,
         subdirectory_validators |->
             IF apply_to_subdirectories
             THEN subdirectory_validators \o SelectSeq(validators, NotListed)
             ELSE subdirectory_validators \o baseline]

EssaysValidators ==
    DirectoryValidators(
        <<V("no_root_file_validator"), V("no_subdirectories_validator"),
          partial("allowed_file_tags_validator", {"essay_file"})>>,
        <<>>, FALSE)

\* The dict of rule sets, keyed by the "/"-joined relative path.
DIRECTORY_VALIDATORS ==
    (purpose :> DirectoryValidators(<<V("root_file_validator")>>, <<>>, FALSE))
    @@ (join(slash, <<purpose, essays>>) :> EssaysValidators)
    @@ (join(slash, <<purpose, essays_bg>>) :> EssaysValidators)
    @@ (thoughts :> DirectoryValidators(
            <<V("no_root_file_validator"),
              V("yarly_directory_current_year_validator"),
              V("yearly_directory_subdirectories_validator"),
              partial("allowed_file_tags_validator", {"thoughts_file"})>>,
            <<V("no_root_file_validator"), V("no_subdirectories_validator"),
              V("yearly_directory_parent_year_validator")>>,
            FALSE))
    @@ (studies :> DirectoryValidators(
            <<V("root_file_validator"), V("only_root_file_validator")>>,
            <<V("root_file_validator"),
              partial("allowed_file_tags_validator", {"study_file"})>>,
            FALSE))
    @@ (archive :> DirectoryValidators(
            <<V("archive_validator"), V("no_root_file_validator"),
              V("notes_directory_validator")>>,
            <<>>, TRUE))

\* FileCollector.__init__
root_directory_validators ==
    DirectoryValidators(<<V("only_root_file_validator")>>, <<>>, FALSE)

default_directory_validators ==
    DirectoryValidators(
        <<V("root_file_validator"), V("notes_directory_validator")>>,
        <<>>, TRUE)

\* A wrong lookup: the shortest prefix that is a key wins.
RECURSIVE lookupShortest(_)
lookupShortest(parts) ==
    IF parts = <<>> THEN <<>>
    ELSE LET shorter == lookupShortest(SubSeq(parts, 1, Len(parts) - 1))
         IN  IF shorter # <<>> THEN shorter
             ELSE IF join(slash, parts) \in DOMAIN DIRECTORY_VALIDATORS
                  THEN parts ELSE <<>>

\* The while loop of _run_validators: the parts are joined and looked up,
\* the last part dropped until a key is found; <<>> when none is.
RECURSIVE lookup(_)
lookup(parts) ==
    IF parts = <<>> THEN <<>>
    ELSE IF join(slash, parts) \in DOMAIN DIRECTORY_VALIDATORS THEN parts
    ELSE lookup(SubSeq(parts, 1, Len(parts) - 1))

\* A wrong choice: what is not registered is taken for a child of the
\* default rule set, and the root for an unregistered directory.
select_validatorsAsChildren(path) ==
    LET parts == relative_to_root(path)
        matched == lookup(parts)
    IN  IF matched # <<>>
        THEN [rule_set |-> [kind |-> "registered", key |-> join(slash, matched)],
              are_child_validators |-> Len(matched) # Len(parts)]
        ELSE [rule_set |-> [kind |-> "default", key |-> <<>>],
              are_child_validators |-> parts # <<>>]

\* The first half of _run_validators: the rule set and the list it picks.
select_validators(path) ==
    LET parts == relative_to_root(path)
        matched == lookup(parts)
    IN  IF parts = <<>>
        THEN [rule_set |-> [kind |-> "root", key |-> <<>>],
              are_child_validators |-> FALSE]
        ELSE IF matched # <<>>
        THEN [rule_set |-> [kind |-> "registered", key |-> join(slash, matched)],
              are_child_validators |-> Len(matched) # Len(parts)]
        ELSE [rule_set |-> [kind |-> "default", key |-> <<>>],
              are_child_validators |-> FALSE]

\* The list the for loop of _run_validators iterates.
selected_list(sel) ==
    LET validators ==
            CASE sel.rule_set.kind = "root" -> root_directory_validators
              [] sel.rule_set.kind = "registered" ->
                     DIRECTORY_VALIDATORS[sel.rule_set.key]
              [] sel.rule_set.kind = "default" -> default_directory_validators
    IN  IF ~sel.are_child_validators
        THEN validators.validators
        ELSE validators.subdirectory_validators

\* The for loop: every validator is called on the directory in turn; an
\* exception of a validator ends the loop and leaves _run_validators.
RECURSIVE run_list(_, _, _)
run_list(validators, d, called) ==
    IF validators = <<>>
    THEN [directory |-> d, ran |-> called, raised |-> "none"]
    ELSE LET r == call(Head(validators), d)
         IN  IF r.raised # "none"
             THEN [directory |-> d, ran |-> Append(called, Head(validators)),
                   raised |-> r.raised]
             ELSE run_list(Tail(validators),
                           [d EXCEPT !.errors = @ \o r.errors],
                           Append(called, Head(validators)))

run_validators(d) ==
    LET sel == select_validators(d.path)
        r == run_list(selected_list(sel), d, <<>>)
    IN  [directory |-> r.directory, selected |-> sel, ran |-> r.ran,
         raised |-> r.raised]

\* ------------------------------------------------------- the walk
MaxFiles == 2          \* files in one directory
MaxDirs == 2           \* directories in the tree below the location
MaxCollections == 1    \* runs of PurposeSystem._collect_files

\* The kinds of file the external parser tells apart: the tag of the class
\* File.match picks ("none": FileError, no class matches the file) and
\* whether parse() succeeds (else FileError or SectionError).
FileKinds ==
    << [name |-> root_md, file_tag |-> "root_file", parses |-> TRUE],
       [name |-> index_md, file_tag |-> "root_file", parses |-> TRUE],
       [name |-> note_md, file_tag |-> "note_file", parses |-> TRUE],
       [name |-> essay_md, file_tag |-> "essay_file", parses |-> TRUE],
       [name |-> thoughts_2022_md, file_tag |-> "thoughts_file", parses |-> TRUE],
       [name |-> thoughts_2021_md, file_tag |-> "thoughts_file", parses |-> TRUE],
       [name |-> broken_md, file_tag |-> "note_file", parses |-> FALSE],
       [name |-> scan_png, file_tag |-> "none", parses |-> FALSE],
       [name |-> DS_Store, file_tag |-> "none", parses |-> FALSE] >>

\* The file classes that derive from RecordedFile.
RecordedTags == {"note_file", "root_file", "diary_file", "thoughts_file",
                 "essay_file", "study_file"}

\* The st_mtime of the files on the disk while a walk runs.
Now == "t1"

\* file.record: the FileRecord of the path, its timestamps read by os.stat.
FileRecord(filepath) == [id_ |-> filepath, updated_at |-> Now, title |-> "a"]

\* The contents a directory can have: its files, listed in a fixed order
\* (no validator depends on the order of os.walk's listing), and the names
\* of its subdirectories.
FileSets == {F \in SUBSET (1..Len(FileKinds)) : Cardinality(F) <= MaxFiles}

RECURSIVE listing(_)
listing(F) ==
    IF F = {} THEN <<>>
    ELSE LET m == CHOOSE x \in F : \A y \in F : x <= y
         IN  <<FileKinds[m]>> \o listing(F \ {m})

SubdirectoryNames ==
    {purpose, essays, thoughts, archive, personal, y2021, y1999}

SubdirectorySets ==
    {S \in SUBSET SubdirectoryNames : Cardinality(S) < MaxDirs}

Locations ==
    {notes_directory \o rel :
        rel \in {<<>>, <<purpose>>, <<purpose, essays>>, <<thoughts>>,
                 <<thoughts, y2021>>, <<studies>>, <<archive>>, <<personal>>}}

\* A wrong iteration: the tag is only appended once the file has parsed.
process_fileTagAfterParse(d, file) ==
    LET filepath == d.path \o <<file.name>>
        relative_path == join(slash, relative_to_root(filepath))
        d1 == [d EXCEPT !.filepaths = Append(@, filepath)]
    IN  IF file.file_tag = "none"
        THEN [d1 EXCEPT !.errors = Append(@, Error("match", relative_path, <<>>))]
        ELSE IF ~file.parses
        THEN [d1 EXCEPT !.errors = Append(@, Error("parse", relative_path, <<>>))]
        ELSE [d1 EXCEPT !.file_tags = Append(@, file.file_tag),
                        !.file_records =
                            IF file.file_tag \in RecordedTags
                            THEN Append(@, FileRecord(filepath)) ELSE @]

\* One iteration of the loop over the files of a directory.
process_file(d, file) ==
    LET filepath == d.path \o <<file.name>>
        relative_path == join(slash, relative_to_root(filepath))
        d1 == [d EXCEPT !.filepaths = Append(@, filepath)]
    IN  IF file.file_tag = "none"
        THEN [d1 EXCEPT !.errors = Append(@, Error("match", relative_path, <<>>))]
        ELSE IF ~file.parses
        THEN [d1 EXCEPT !.file_tags = Append(@, file.file_tag),
                        !.errors = Append(@, Error("parse", relative_path, <<>>))]
        ELSE [d1 EXCEPT !.file_tags = Append(@, file.file_tag),
                        !.file_records =
                            IF file.file_tag \in RecordedTags
                            THEN Append(@, FileRecord(filepath)) ELSE @]

\* A wrong loop: the first file that fails ends the loop over the files.
RECURSIVE process_filesStopsAtError(_, _)
process_filesStopsAtError(d, files_) ==
    IF files_ = <<>> THEN d
    ELSE LET d1 == process_file(d, Head(files_))
         IN  IF Len(d1.errors) > Len(d.errors) THEN d1
             ELSE process_filesStopsAtError(d1, Tail(files_))

RECURSIVE process_files(_, _)
process_files(d, files_) ==
    IF files_ = <<>> THEN d
    ELSE process_files(process_file(d, Head(files_)), Tail(files_))

\* One iteration of the loop over os.walk up to and including the call of
\* _run_validators.
walk_directory(root, subdirectories, files_) ==
    run_validators(process_files(
        [path |-> root,
         subdirectories |->
             [i \in 1..Len(subdirectories) |-> root \o <<subdirectories[i]>>],
         filepaths |-> <<>>, file_records |-> <<>>, file_tags |-> <<>>,
         errors |-> <<>>],
        files_))

\* A wrong return: the records are handed out whatever the errors.
FileCollectorResultKeepsRecords(records, errors) ==
    [records |-> records, errors |-> errors]

\* The return statement of collect_files.
FileCollectorResult(records, errors) ==
    [records |-> IF errors = <<>> THEN records ELSE <<>>, errors |-> errors]

\* collect_files(location) is called; os.walk yields nothing for a
\* location that is not there.
BeginWalk(loc, is_dir, who) ==
    /\ walk = "idle"
    /\ walk' = "walking"
    /\ location' = loc
    /\ pending' = IF is_dir THEN <<loc>> ELSE <<>>
    /\ present' = is_dir
    /\ listed' = <<>>
    /\ failures' = 0
    /\ walked' = 0
    /\ directory' = NoDirectory
    /\ selected' = NoSelection
    /\ ran' = <<>>
    /\ all_records' = <<>> /\ all_errors' = <<>>
    /\ found' = {}
    /\ removed' = {}
    /\ result' = NoResult
    /\ caller' = who

StartWalk ==
    /\ caller = "none"
    /\ \E loc \in Locations, is_dir \in BOOLEAN : BeginWalk(loc, is_dir, "direct")
    /\ UNCHANGED <<toolVars, dbVars, answer, file_errors_log, before, calls, collections>>

\* One iteration of the loop over os.walk: the directory at the head of
\* what is pending is listed, its files are matched and parsed, its
\* validators run, and its records and errors join the accumulators.
VisitDirectory ==
    /\ walk = "walking"
    /\ pending # <<>>
    /\ \E F \in FileSets, S \in SubdirectorySets :
          /\ Cardinality(S) <= MaxDirs - walked - Len(pending)
          /\ \E subdirectories \in Orders(S) :
                LET root == Head(pending)
                    v == walk_directory(root, subdirectories, listing(F))
                    below == [i \in 1..Len(subdirectories) |->
                                  root \o <<subdirectories[i]>>]
                IN  /\ directory' = v.directory
                    /\ selected' = v.selected
                    /\ ran' = v.ran
                    /\ walked' = walked + 1
                    /\ removed' = removed \cup
                           {root \o <<FileKinds[i].name>> :
                               i \in {j \in F : FileKinds[j].name = DS_Store}}
                    /\ found' = found \cup SeqIds(v.directory.file_records)
                    /\ listed' = [i \in 1..Len(listing(F)) |-> listing(F)[i].name]
                    /\ failures' = failures + Cardinality(
                           {i \in F : FileKinds[i].file_tag = "none"
                                       \/ ~FileKinds[i].parses})
                    /\ IF v.raised = "none"
                       THEN /\ walk' = walk
                            /\ pending' = below \o Tail(pending)
                            /\ all_records' = all_records \o v.directory.file_records
                            /\ all_errors' = all_errors \o v.directory.errors
                       ELSE /\ walk' = v.raised
                            /\ pending' = <<>>
                            /\ UNCHANGED <<all_records, all_errors>>
    /\ UNCHANGED <<toolVars, location, present, result, dbVars, systemVars>>

\* os.walk is exhausted: collect_files returns.
ReturnResult ==
    /\ walk = "walking"
    /\ pending = <<>>
    /\ walk' = "returned"
    /\ result' = FileCollectorResult(all_records, all_errors)
    /\ UNCHANGED <<toolVars, location, pending, walked, directory, selected, ran,
                   all_records, all_errors, found, present, listed, failures,
                   removed, dbVars, systemVars>>

\* The caller of collect_files is done with the result or the exception.
FinishWalk ==
    /\ caller = "direct"
    /\ walk \notin {"idle", "walking"}
    /\ walk' = "idle"
    /\ location' = <<>>
    /\ pending' = <<>>
    /\ walked' = 0
    /\ directory' = NoDirectory
    /\ selected' = NoSelection
    /\ ran' = <<>>
    /\ all_records' = <<>> /\ all_errors' = <<>>
    /\ found' = {}
    /\ present' = FALSE
    /\ listed' = <<>>
    /\ failures' = 0
    /\ removed' = {}
    /\ result' = NoResult
    /\ caller' = "none"
    /\ UNCHANGED <<toolVars, dbVars, answer, file_errors_log, before, calls, collections>>

InitCollect ==
    /\ cls = "FileRecord"
    /\ collection = {}
    /\ mtime = <<>>
    /\ life = <<>>
    /\ was = <<>>
    /\ items = <<>>
    /\ existing = {}
    /\ saved = <<>> /\ updated = <<>> /\ deleted = <<>> /\ unchanged = <<>>
    /\ outcome = "idle"
    /\ repeat = FALSE
    /\ ops = <<>>
    /\ NoWalk
    /\ NoCollection
    /\ NoTools

NextCollect == StartWalk \/ VisitDirectory \/ ReturnResult \/ FinishWalk

SpecCollect == InitCollect /\ [][NextCollect]_vars

\* ------------------------------------------------------- PurposeSystem
\* Collections a database can hold when the program starts: what earlier
\* runs persisted for files of the notes directory.
SampleStores ==
    LET root_record == FileRecord(notes_directory \o <<root_md>>)
        note_record == FileRecord(notes_directory \o <<purpose, note_md>>)
    IN  {{}, {root_record}, {[root_record EXCEPT !.updated_at = "t2"]},
         {root_record, note_record}}

\* The directories _collect_files is run on.
CollectLocations == {notes_directory, notes_directory \o <<archive, personal>>}

\* os.stat while save_update_delete runs: the files the walk has just
\* recorded are there, the other paths below the walked location are not,
\* and what lies outside the walked location is as it was.
disk(loc, records, coll) ==
    [p \in IdSet(coll) \cup SeqIds(records) |->
        IF p \in SeqIds(records) THEN Now
        ELSE IF IsPrefix(loc, p) THEN Missing
        ELSE Now]

\* _collect_files(directory) is entered and calls collect_files.
CollectFiles ==
    /\ caller = "none"
    /\ answer = "idle"
    /\ collections < MaxCollections
    /\ \E loc \in CollectLocations : BeginWalk(loc, TRUE, "PurposeSystem")
    /\ answer' = "collecting"
    /\ before' = collection
    /\ calls' = 0
    /\ collections' = collections + 1
    /\ UNCHANGED <<toolVars, dbVars, file_errors_log>>

\* result.errors: the log is rewritten, the errors are reported, () returned.
ReportErrors ==
    /\ caller = "PurposeSystem"
    /\ answer = "collecting"
    /\ walk = "returned"
    /\ result.errors # <<>>
    /\ file_errors_log' = result.errors
    /\ answer' = "errors"
    /\ UNCHANGED <<toolVars, dbVars, walkVars, caller, before, calls, collections>>

\* A wrong answer to an empty result: the empty list is reconciled, which
\* deletes every persisted record.
ReportNoFilesReconciles ==
    /\ caller = "PurposeSystem"
    /\ answer = "collecting"
    /\ walk = "returned"
    /\ result.errors = <<>>
    /\ result.records = <<>>
    /\ LET fs == disk(location, <<>>, collection)
       IN  \E order \in Orders(Leftovers(cls, collection, fs, <<>>)) :
              LET st == save_update_delete(cls, collection, fs, <<>>, order)
              IN  /\ collection' = st.coll
                  /\ ops' = st.ops
    /\ answer' = "no_files"
    /\ UNCHANGED <<toolVars, cls, mtime, life, was, items, existing, saved,
                   updated, deleted, unchanged, outcome, repeat, walkVars,
                   caller, file_errors_log, before, calls, collections>>

\* not result.records: "No files found.", () returned.
ReportNoFiles ==
    /\ caller = "PurposeSystem"
    /\ answer = "collecting"
    /\ walk = "returned"
    /\ result.errors = <<>>
    /\ result.records = <<>>
    /\ answer' = "no_files"
    /\ UNCHANGED <<toolVars, dbVars, walkVars, caller, file_errors_log, before, calls,
                   collections>>

\* A wrong gate: whatever the walk found is reconciled, errors or not.
ReconcileFilesDespiteErrors ==
    /\ caller = "PurposeSystem"
    /\ answer = "collecting"
    /\ walk = "returned"
    /\ all_records # <<>>
    /\ LET fs == disk(location, all_records, collection)
       IN  \E order \in Orders(Leftovers(cls, collection, fs, all_records)) :
              LET st == save_update_delete(cls, collection, fs,
                                           all_records, order)
                  ok == st.raised = "none"
              IN  /\ items' = all_records
                  /\ existing' = collection
                  /\ collection' = st.coll
                  /\ ops' = st.ops
                  /\ outcome' = IF ok THEN "returned" ELSE st.raised
                  /\ saved' = IF ok THEN st.saved ELSE <<>>
                  /\ updated' = IF ok THEN st.updated ELSE <<>>
                  /\ deleted' = IF ok THEN st.deleted ELSE <<>>
                  /\ unchanged' = IF ok THEN st.unchanged ELSE <<>>
                  /\ answer' = IF ok THEN "reconciled" ELSE st.raised
    /\ calls' = calls + 1
    /\ UNCHANGED <<toolVars, cls, mtime, life, was, repeat, walkVars, caller,
                   file_errors_log, before, collections>>

\* return self.database.save_update_delete(FileRecord, result.records)
ReconcileFiles ==
    /\ caller = "PurposeSystem"
    /\ answer = "collecting"
    /\ walk = "returned"
    /\ result.errors = <<>>
    /\ result.records # <<>>
    /\ LET fs == disk(location, result.records, collection)
       IN  \E order \in Orders(Leftovers(cls, collection, fs, result.records)) :
              LET st == save_update_delete(cls, collection, fs,
                                           result.records, order)
                  ok == st.raised = "none"
              IN  /\ items' = result.records
                  /\ existing' = collection
                  /\ collection' = st.coll
                  /\ ops' = st.ops
                  /\ outcome' = IF ok THEN "returned" ELSE st.raised
                  /\ saved' = IF ok THEN st.saved ELSE <<>>
                  /\ updated' = IF ok THEN st.updated ELSE <<>>
                  /\ deleted' = IF ok THEN st.deleted ELSE <<>>
                  /\ unchanged' = IF ok THEN st.unchanged ELSE <<>>
                  /\ answer' = IF ok THEN "reconciled" ELSE st.raised
    /\ calls' = calls + 1
    /\ UNCHANGED <<toolVars, cls, mtime, life, was, repeat, walkVars, caller,
                   file_errors_log, before, collections>>

\* An exception of collect_files leaves _collect_files as well.
PropagateError ==
    /\ caller = "PurposeSystem"
    /\ answer = "collecting"
    /\ walk \notin {"idle", "walking", "returned"}
    /\ answer' = walk
    /\ UNCHANGED <<toolVars, dbVars, walkVars, caller, file_errors_log, before, calls,
                   collections>>

\* The command that ran _collect_files is over.
FinishCollect ==
    /\ caller = "PurposeSystem"
    /\ answer \notin {"idle", "collecting"}
    /\ answer' = "idle"
    /\ caller' = "none"
    /\ before' = {}
    /\ calls' = 0
    /\ walk' = "idle"
    /\ location' = <<>>
    /\ pending' = <<>>
    /\ walked' = 0
    /\ directory' = NoDirectory
    /\ selected' = NoSelection
    /\ ran' = <<>>
    /\ all_records' = <<>> /\ all_errors' = <<>>
    /\ found' = {}
    /\ present' = FALSE
    /\ listed' = <<>>
    /\ failures' = 0
    /\ removed' = {}
    /\ result' = NoResult
    /\ items' = <<>>
    /\ existing' = {}
    /\ saved' = <<>> /\ updated' = <<>> /\ deleted' = <<>> /\ unchanged' = <<>>
    /\ outcome' = "idle"
    /\ ops' = <<>>
    /\ UNCHANGED <<toolVars, cls, collection, mtime, life, was, repeat, file_errors_log,
                   collections>>

Init ==
    /\ cls = "FileRecord"
    /\ collection \in SampleStores
    /\ mtime = <<>>
    /\ life = <<>>
    /\ was = <<>>
    /\ items = <<>>
    /\ existing = {}
    /\ saved = <<>> /\ updated = <<>> /\ deleted = <<>> /\ unchanged = <<>>
    /\ outcome = "idle"
    /\ repeat = FALSE
    /\ ops = <<>>
    /\ NoWalk
    /\ NoCollection
    /\ NoTools

Next ==
    \/ CollectFiles
    \/ VisitDirectory
    \/ ReturnResult
    \/ ReportErrors
    \/ ReportNoFiles
    \/ ReconcileFiles
    \/ PropagateError
    \/ FinishCollect

Spec == Init /\ [][Next]_vars

\* ------------------------------------------------------- walk claims
IsSuffix(t, s) == EndsWith(s, t)

\* C1: a result collect_files returns never holds records next to errors:
\* the errors of every visited directory are in the result and, once there
\* is one, the records list is empty, even when the directory visited last
\* produced records and no error; when there is no error the result holds
\* exactly the records the visited directories produced.
C1_AllOrNothing ==
    /\ (walk \in {"walking", "returned"} /\ walked > 0) =>
           IsSuffix(directory.errors, all_errors)
    /\ walk = "returned" =>
           /\ result.errors = all_errors
           /\ result.errors # <<>> => result.records = <<>>
           /\ result.errors = <<>> =>
                  /\ SeqIds(result.records) = found
                  /\ Len(result.records) = Cardinality(found)

\* Two directories were walked, the first left an error, the second parsed
\* and validated cleanly, and the result holds no record.
C1_Witness ==
    /\ walk = "returned"
    /\ walked = 2
    /\ directory.errors = <<>>
    /\ directory.file_records # <<>>
    /\ result.errors # <<>>
    /\ result.records = <<>>
    /\ found # {}

\* The prefixes of the relative parts of a path that are registered keys.
RegisteredPrefixes(parts) ==
    {k \in {SubSeq(parts, 1, n) : n \in 1..Len(parts)} :
        join(slash, k) \in DOMAIN DIRECTORY_VALIDATORS}

LongestRegisteredPrefix(parts) ==
    CHOOSE k \in RegisteredPrefixes(parts) :
        \A j \in RegisteredPrefixes(parts) : Len(j) <= Len(k)

\* C9: for a visited directory below the root with a registered prefix, the
\* rule set chosen is the one of the longest registered prefix; the list
\* that runs is its own validators when the prefix is the whole path and
\* its subdirectory validators when it is shorter, and nothing else runs.
C9_LongestPrefixWins ==
    LET parts == relative_to_root(directory.path)
    IN  (walked > 0 /\ parts # <<>> /\ RegisteredPrefixes(parts) # {}) =>
            LET k == LongestRegisteredPrefix(parts)
                entry == DIRECTORY_VALIDATORS[join(slash, k)]
                expected == IF Len(k) = Len(parts)
                            THEN entry.validators
                            ELSE entry.subdirectory_validators
            IN  /\ selected.rule_set =
                       [kind |-> "registered", key |-> join(slash, k)]
                /\ selected.are_child_validators = (Len(k) < Len(parts))
                /\ IsPrefix(ran, expected)
                /\ walk # "NameError" => ran = expected

\* purpose/essays was visited below purpose and its own validators ran.
C9_Witness ==
    /\ walked = 2
    /\ location = notes_directory \o <<purpose>>
    /\ directory.path = notes_directory \o <<purpose, essays>>
    /\ selected.rule_set.key = join(slash, <<purpose, essays>>)
    /\ ~selected.are_child_validators
    /\ ran = EssaysValidators.validators

\* The lists the root-only and the default rule set run on a directory.
RootOwnValidators ==
    <<V("only_root_file_validator"), V("no_files_validator"),
      V("non_markdown_files_validator")>>

DefaultOwnValidators ==
    <<V("root_file_validator"), V("notes_directory_validator"),
      V("no_files_validator"), V("non_markdown_files_validator")>>

\* C10: the root of the notes is checked with the own validators of the
\* root-only rule set, a directory without a registered prefix with the own
\* validators of the default rule set, and for every directory the
\* validators that run are those of the one list chosen, in its order.
C10_RootAndDefault ==
    LET parts == relative_to_root(directory.path)
    IN  walked > 0 =>
            /\ IsPrefix(ran, selected_list(selected))
            /\ walk # "NameError" => ran = selected_list(selected)
            /\ parts = <<>> =>
                   /\ selected = [rule_set |-> [kind |-> "root", key |-> <<>>],
                                  are_child_validators |-> FALSE]
                   /\ selected_list(selected) = RootOwnValidators
            /\ (parts # <<>> /\ RegisteredPrefixes(parts) = {}) =>
                   /\ selected = [rule_set |-> [kind |-> "default", key |-> <<>>],
                                  are_child_validators |-> FALSE]
                   /\ selected_list(selected) = DefaultOwnValidators

\* A directory two levels below the root, no prefix of it registered, went
\* through the whole default list.
C10_Witness ==
    /\ walked = 2
    /\ Len(relative_to_root(directory.path)) = 2
    /\ RegisteredPrefixes(relative_to_root(directory.path)) = {}
    /\ selected.rule_set.kind = "default"
    /\ ran = DefaultOwnValidators

\* ------------------------------------------------------- gate claims
\* C8: while and after _collect_files runs, save_update_delete has been
\* called at most once, and only once collect_files has returned a result
\* without errors, with exactly the records of that result; when the
\* result has an error no store operation runs and the collection is as it
\* was before, and once the errors are handled the log holds them and
\* nothing but the empty tuple is returned.
C8_NoReconcileOnErrors ==
    caller = "PurposeSystem" =>
        /\ calls <= 1
        /\ calls = 1 =>
               /\ walk = "returned"
               /\ result.errors = <<>>
               /\ existing = before
        /\ calls = 0 => (collection = before /\ ops = <<>>)
        /\ (walk = "returned" /\ result.errors # <<>>) =>
               /\ calls = 0
               /\ collection = before
               /\ ops = <<>>
               /\ answer \in {"collecting", "errors"}
               /\ answer = "errors" =>
                      /\ file_errors_log = result.errors
                      /\ outcome = "idle"
                      /\ saved = <<>> /\ updated = <<>>
                      /\ deleted = <<>> /\ unchanged = <<>>

\* Errors were reported for a walk that had found records, over a store
\* that held records, and the store is what it was.
C8_Witness ==
    /\ answer = "errors"
    /\ found # {}
    /\ before # {}
    /\ IdSet(before) # found
    /\ collection = before
    /\ calls = 0

\* ------------------------------------------------------- validator claims
\* C11 (as claimed): whatever directory the walk visits, the list chosen
\* for it holds both baseline validators, so a directory without files or
\* with a file that is not markdown always gets their errors.
C11_BaselineEverywhere ==
    walked > 0 =>
        /\ Range(baseline) \subseteq Range(selected_list(selected))
        /\ (walk # "NameError" /\ directory.filepaths = <<>>) =>
               \E i \in 1..Len(directory.errors) :
                   directory.errors[i].by = "no_files_validator"

\* C12 (as claimed): running the validators of a directory never raises,
\* and every validator of the chosen list is called, once and in order.
C12_ValidatorsNeverRaise ==
    /\ walk # "NameError"
    /\ walked > 0 => ran = selected_list(selected)

\* The errors the parser steps left for the files of the last directory.
FileErrors(errors) ==
    SelectSeq(errors, LAMBDA e : e.by \in {"match", "parse"})

\* The names of the files that do not match or do not parse.
FailingNames ==
    {FileKinds[i].name : i \in {j \in 1..Len(FileKinds) :
        FileKinds[j].file_tag = "none" \/ ~FileKinds[j].parses}}

C18_MissingLocationIsFatal ==
    (caller = "direct" /\ ~present) => walk # "returned"

\* ------------------------------------------------------- deterministic ids
MaxRecords == 2    \* constructions that are compared with one another

\* A raw field value as validate_raw sees it: its Python type and its
\* content, a number (int; float in tenths; bool as 0/1; datetime in hours
\* after 21/02/2022 00:00 UK time), the characters of a str or the parts of
\* a Path.
None == [kind |-> "None", n |-> 0, s |-> <<>>, p |-> <<>>]
IntValue(n) == [kind |-> "int", n |-> n, s |-> <<>>, p |-> <<>>]
FloatValue(tenths) == [kind |-> "float", n |-> tenths, s |-> <<>>, p |-> <<>>]
BoolValue(b) == [kind |-> "bool", n |-> IF b THEN 1 ELSE 0, s |-> <<>>, p |-> <<>>]
StrValue(s) == [kind |-> "str", n |-> 0, s |-> s, p |-> <<>>]
DatetimeValue(hours) == [kind |-> "datetime", n |-> hours, s |-> <<>>, p |-> <<>>]
PathValue(parts) == [kind |-> "Path", n |-> 0, s |-> <<>>, p |-> parts]

\* values.get(field): None for a key that is not there.
get(values, field) == IF field \in DOMAIN values THEN values[field] ELSE None

\* bool(value), the test behind "if not value: continue".
truth(value) ==
    CASE value.kind = "None" -> FALSE
      [] value.kind \in {"int", "float"} -> value.n # 0
      [] value.kind = "bool" -> value.n = 1
      [] value.kind = "str" -> value.s # <<>>
      [] OTHER -> TRUE

DigitChars == <<"0", "1", "2", "3", "4", "5", "6", "7", "8", "9">>

\* str(n) of an int.
RECURSIVE str_int(_)
str_int(n) ==
    IF n < 0 THEN <<"-">> \o str_int(0 - n)
    ELSE IF n < 10 THEN <<DigitChars[n + 1]>>
    ELSE str_int(n \div 10) \o <<DigitChars[(n % 10) + 1]>>

\* str(x) of a float with one decimal place.
str_float(tenths) ==
    IF tenths < 0 THEN <<"-">> \o str_int((0 - tenths) \div 10)
                       \o <<".", DigitChars[((0 - tenths) % 10) + 1]>>
    ELSE str_int(tenths \div 10) \o <<".", DigitChars[(tenths % 10) + 1]>>

\* date_utils.date_str(value, worded=False): strftime("%d/%m/%Y") of the
\* date in UK time; the hours of the day are not part of it.
date_str(hours) ==
    str_int(21 + hours \div 24) \o <<"/", "0", "2", "/", "2", "0", "2", "2">>

\* Path.as_posix() of an absolute path.
as_posix(parts) == slash \o join(slash, parts)

\* The string appended to determinant_values for a value of an allowed type.
str(value) ==
    CASE value.kind = "int" -> str_int(value.n)
      [] value.kind = "float" -> str_float(value.n)
      [] value.kind = "bool" -> IF value.n = 1 THEN <<"T", "r", "u", "e">>
                                ELSE <<"F", "a", "l", "s", "e">>
      [] value.kind = "str" -> value.s
      [] value.kind = "datetime" -> date_str(value.n)
      [] value.kind = "Path" -> as_posix(value.p)

\* hash_utils.generate_uuid: the md5 hex digest of the identifier. The
\* digest is kept symbolic, as the hash of its argument: two ids are equal
\* exactly when the hashed strings are (md5 taken as injective on them).
generate_uuid(identifier) == [md5 |-> identifier]
NoId == [md5 |-> <<>>]

underscore == <<"_">>
TestClass_name == <<"T", "e", "s", "t", "C", "l", "a", "s", "s">>
Note_name == <<"N", "o", "t", "e">>

\* The record types: cls.__name__, DETERMINANT_FIELDS and all fields.
\* The three test types are all called TestClass.
TestClass ==
    [name |-> TestClass_name,
     DETERMINANT_FIELDS |-> <<"int_p", "float_p", "bool_p", "str_p", "datetime_p", "path_p">>,
     fields |-> <<"int_p", "float_p", "bool_p", "str_p", "datetime_p", "path_p">>]

TestClassWithOptionalFields ==
    [name |-> TestClass_name,
     DETERMINANT_FIELDS |-> <<"int_p", "float_p">>,
     fields |-> <<"int_p", "float_p">>]

TestClassNoValues ==
    [name |-> TestClass_name,
     DETERMINANT_FIELDS |-> <<"int_p">>,
     fields |-> <<"int_p">>]

Note ==
    [name |-> Note_name,
     DETERMINANT_FIELDS |-> <<"file_id", "title">>,
     fields |-> <<"title", "text", "file_id">>]

Classes == {TestClass, TestClassWithOptionalFields, TestClassNoValues, Note}

\* The arguments the constructions are made with. Every argument set is
\* one pydantic accepts: required fields are there with a value of their
\* type, only Optional fields are None or left out.
TestObject ==
    [int_p |-> IntValue(1), float_p |-> FloatValue(11), bool_p |-> BoolValue(TRUE),
     str_p |-> StrValue(<<"a">>), datetime_p |-> DatetimeValue(24),
     path_p |-> PathValue(<<<<"h", "o", "m", "e">>>>)]

ValuesOf(field) ==
    CASE field = "int_p" -> {IntValue(0), IntValue(1), IntValue(2)}
      [] field = "float_p" -> {FloatValue(0), FloatValue(11), FloatValue(21)}
      [] field = "bool_p" -> {BoolValue(FALSE), BoolValue(TRUE)}
      [] field = "str_p" -> {StrValue(<<>>), StrValue(<<"a">>), StrValue(<<"b">>), StrValue(<<"a", "_", "b">>)}
      [] field = "datetime_p" -> {DatetimeValue(0), DatetimeValue(24), DatetimeValue(34)}
      [] field = "path_p" -> {PathValue(<<<<"h", "o", "m", "e">>>>),
                              PathValue(<<<<"h", "o", "m", "e">>, <<"c", "w", "d">>>>)}

\* The test object and the objects that differ from it in one field.
DifferingObjects ==
    {[TestObject EXCEPT ![field] = value] :
        <<field, value>> \in UNION {{<<f, v>> : v \in ValuesOf(f)} :
                                       f \in DOMAIN TestObject}}

OptionalObjects ==
    {[int_p |-> i, float_p |-> f] : i \in {IntValue(0), IntValue(1)},
                                     f \in {None, FloatValue(0), FloatValue(11)}}
    \cup {[int_p |-> i] : i \in {IntValue(0), IntValue(1)}}

NoValuesObjects == {[int_p |-> i] : i \in {None, IntValue(0), IntValue(1)}}

Notes ==
    {[file_id |-> StrValue(f), title |-> StrValue(t), text |-> StrValue(x)] :
        f \in {<<"f">>, <<"g">>},
        t \in {<<>>, <<"a">>, <<"b">>, <<"a", "_", "b">>},
        x \in {<<"x">>, <<"y">>}}

\* A record built again from its stored document carries its "_id".
WithId(values, id) == values @@ ("_id" :> id)

Inputs(class) ==
    CASE class = TestClass -> DifferingObjects
      [] class = TestClassWithOptionalFields -> OptionalObjects
      [] class = TestClassNoValues -> NoValuesObjects
      [] class = Note ->
            Notes \cup {WithId(v, generate_uuid(<<"u">>)) :
                           v \in {w \in Notes : w.file_id = StrValue(<<"f">>)}}

\* The strings of the determinant fields, in the order of
\* DETERMINANT_FIELDS: a falsy value is skipped, a value of an allowed type
\* is converted, any other value is silently left out.
RECURSIVE determinant_strings(_, _)
determinant_strings(fields, values) ==
    IF fields = <<>> THEN <<>>
    ELSE LET value == get(values, Head(fields))
         IN  (IF truth(value) THEN <<str(value)>> ELSE <<>>)
             \o determinant_strings(Tail(fields), values)

\* A wrong validator: every field of the record goes into the hashed string.
validate_rawAllFields(class, values) ==
    IF "_id" \in DOMAIN values THEN [values |-> values, raised |-> "none"]
    ELSE LET determinant_values ==
                 <<class.name>> \o determinant_strings(class.fields, values)
         IN  IF Len(determinant_values) < 2
             THEN [values |-> values, raised |-> "ValueError"]
             ELSE [values |-> WithId(values,
                                generate_uuid(join(underscore, determinant_values))),
                   raised |-> "none"]

\* DeterministicDatabaseRecord.validate_raw (model_validator, mode="before").
validate_raw(class, values) ==
    IF "_id" \in DOMAIN values THEN [values |-> values, raised |-> "none"]
    ELSE LET determinant_values ==
                 <<class.name>>
                 \o determinant_strings(class.DETERMINANT_FIELDS, values)
         IN  IF Len(determinant_values) < 2
             THEN [values |-> values, raised |-> "ValueError"]
             ELSE [values |-> WithId(values,
                                generate_uuid(join(underscore, determinant_values))),
                   raised |-> "none"]

\* class(**values): the validator runs, pydantic reports its ValueError as a
\* ValidationError, otherwise the record has the id of values["_id"].
ConstructRecord ==
    /\ Len(constructed) < MaxRecords
    /\ \E class \in Classes : \E values \in Inputs(class) :
          LET out == validate_raw(class, values)
          IN  constructed' = Append(constructed,
                  [class |-> class,
                   values |-> values,
                   id_ |-> IF out.raised = "none" THEN out.values["_id"] ELSE NoId,
                   raised |-> IF out.raised = "none" THEN "none"
                              ELSE "ValidationError"])
    /\ UNCHANGED <<loopVars, dbVars, walkVars, systemVars, request, link_, extra,
                   linked, resolved>>

\* The records are dropped.
DiscardRecords ==
    /\ constructed # <<>>
    /\ constructed' = <<>>
    /\ UNCHANGED <<loopVars, dbVars, walkVars, systemVars, request, link_, extra,
                   linked, resolved>>

\* No reconciliation is running and nothing is persisted.
NoReconciliation ==
    /\ collection = {}
    /\ mtime = [p \in IdsOf(cls) |-> Missing]
    /\ life = [i \in IdsOf(cls) |-> "absent"]
    /\ was = [i \in IdsOf(cls) |-> "absent"]
    /\ items = <<>>
    /\ existing = {}
    /\ saved = <<>> /\ updated = <<>> /\ deleted = <<>> /\ unchanged = <<>>
    /\ outcome = "idle"
    /\ repeat = FALSE
    /\ ops = <<>>

InitRecords ==
    /\ cls = "DatabaseRecordStub"
    /\ NoReconciliation
    /\ NoWalk
    /\ NoCollection
    /\ NoTools

NextRecords == ConstructRecord \/ DiscardRecords

SpecRecords == InitRecords /\ [][NextRecords]_vars

\* ------------------------------------------------------- identity claims
\* The values of the determinant fields of a construction, None for a
\* field that was left out, and whether its id was generated.
DeterminantValues(r) ==
    [k \in 1..Len(r.class.DETERMINANT_FIELDS) |->
        get(r.values, r.class.DETERMINANT_FIELDS[k])]

Generated(r) == "_id" \notin DOMAIN r.values

\* C14: two constructions of the same type without explicit id and with
\* equal determinant-field values end the same way and, when they succeed,
\* with the same id_, whatever the other fields hold and whichever of the
\* two was constructed first.
C14_IdIsFunctionOfDeterminants ==
    \A i, j \in 1..Len(constructed) :
        LET a == constructed[i]
            b == constructed[j]
        IN  (/\ a.class = b.class
             /\ Generated(a) /\ Generated(b)
             /\ DeterminantValues(a) = DeterminantValues(b))
            => (a.raised = b.raised /\ a.id_ = b.id_)

\* Two notes with the same file_id and title and different texts were
\* constructed and have the same generated id.
C14_Witness ==
    /\ Len(constructed) = 2
    /\ constructed[1].class = Note /\ constructed[2].class = Note
    /\ Generated(constructed[1]) /\ Generated(constructed[2])
    /\ DeterminantValues(constructed[1]) = DeterminantValues(constructed[2])
    /\ constructed[1].values # constructed[2].values
    /\ constructed[1].raised = "none"
    /\ constructed[1].id_ = constructed[2].id_
    /\ constructed[1].id_ # NoId

\* The determinant fields in which two constructions of one type differ.
DifferingFields(a, b) ==
    {k \in 1..Len(a.class.DETERMINANT_FIELDS) :
        DeterminantValues(a)[k] # DeterminantValues(b)[k]}

\* C15 (as claimed): two successful constructions of the same type without
\* explicit id whose determinant-field values differ in exactly one field
\* have different hashed strings, hence different ids, for every pair of
\* distinct values of that field.
C15_SingleFieldChangeChangesId ==
    \A i, j \in 1..Len(constructed) :
        LET a == constructed[i]
            b == constructed[j]
        IN  (/\ a.class = b.class
             /\ Generated(a) /\ Generated(b)
             /\ a.raised = "none" /\ b.raised = "none"
             /\ Cardinality(DifferingFields(a, b)) = 1)
            => a.id_ # b.id_

\* An empty or absent determinant value: None, a missing key, the empty str.
IsEmpty(value) == value.kind = "None" \/ (value.kind = "str" /\ value.s = <<>>)

NonEmptyStrings(r) ==
    LET values == DeterminantValues(r)
        Kept(k) == ~IsEmpty(values[k])
        kept == SelectSeq([k \in 1..Len(values) |-> k], Kept)
    IN  [k \in 1..Len(kept) |-> str(values[kept[k]])]

\* C16 (as claimed): a construction without explicit id fails with the
\* validation error exactly when every determinant field is empty or
\* absent; otherwise it succeeds and the hashed string is the type name
\* followed by the strings of the non-empty determinant values.
C16_FailsIffAllEmpty ==
    \A i \in 1..Len(constructed) :
        LET r == constructed[i]
        IN  Generated(r) =>
                /\ r.raised = "ValidationError"
                       <=> \A k \in 1..Len(r.class.DETERMINANT_FIELDS) :
                               IsEmpty(DeterminantValues(r)[k])
                /\ r.raised = "none" =>
                       r.id_ = generate_uuid(join(underscore,
                                   <<r.class.name>> \o NonEmptyStrings(r)))

\* ------------------------------------------------------- atomicity claim
\* C17 (as claimed): a save_update_delete run that ends in an exception
\* leaves the collection as it was when the run started: none of its
\* mutations is applied.
C17_SingleLogicalUnit ==
    outcome \notin {"idle", "returned"} => collection = existing

\* ------------------------------------------------------- store operations
\* The collection as a single save, update or delete call finds it.
Store(coll) == [coll |-> coll, ops |-> <<>>, raised |-> "none"]

\* What a direct call of a store operation leaves behind: the collection,
\* the mutation it issued, the history of the ids, and DatabaseError or a
\* normal return.
Request(name, id, its, st) ==
    /\ request' = <<name, id>>
    /\ items' = its
    /\ existing' = collection
    /\ collection' = st.coll
    /\ ops' = st.ops
    /\ was' = life
    /\ life' = LifeAfter(life, st.ops)
    /\ outcome' = IF st.raised = "none" THEN "returned" ELSE st.raised
    /\ UNCHANGED <<cls, mtime, saved, updated, deleted, unchanged, repeat,
                   walkVars, systemVars, constructed, link_, extra, linked,
                   resolved, loopVars>>

\* database.save(entity)
Save ==
    \E item \in RecordsOf(cls) :
        Request("save", item.id_, <<item>>, save(Store(collection), item))

\* database.update(entity)
Update ==
    \E item \in RecordsOf(cls) :
        Request("update", item.id_, <<item>>, update(Store(collection), item))

\* database.delete(cls, id_)
Delete ==
    \E id \in IdsOf(cls) :
        Request("delete", id, <<>>, delete(Store(collection), id))

InitStore ==
    /\ cls = "DatabaseRecordStub"
    /\ NoReconciliation
    /\ NoWalk
    /\ NoCollection
    /\ NoTools

NextStore == Save \/ Update \/ Delete

SpecStore == InitStore /\ [][NextStore]_vars

\* C19: save raises DatabaseError exactly when the id is persisted, update
\* and delete exactly when it is not, and a call that raises leaves the
\* collection as it was; a call that returns has inserted, replaced or
\* removed the one document of the id. After every sequence of calls the
\* collection holds at most one document per id and an id exists exactly
\* when it was saved and not deleted since.
C19_StorePreconditions ==
    /\ \A a, b \in collection : a.id_ = b.id_ => a = b
    /\ \A id \in IdsOf(cls) : exists(collection, id) <=> life[id] = "live"
    /\ request # <<>> =>
           LET name == request[1]
               id == request[2]
               had == exists(existing, id)
               others == {d \in existing : d.id_ # id}
           IN  /\ outcome \in {"returned", "DatabaseError"}
               /\ name = "save" => (outcome = "DatabaseError" <=> had)
               /\ name \in {"update", "delete"} =>
                      (outcome = "DatabaseError" <=> ~had)
               /\ outcome = "DatabaseError" =>
                      collection = existing /\ ops = <<>>
               /\ (outcome = "returned" /\ name = "save") =>
                      collection = existing \cup {items[1]}
               /\ (outcome = "returned" /\ name = "update") =>
                      collection = others \cup {items[1]}
               /\ (outcome = "returned" /\ name = "delete") =>
                      collection = others

\* A save of a persisted id was refused after other ids had been saved,
\* updated and deleted.
C19_Witness ==
    /\ request # <<>>
    /\ request[1] = "save"
    /\ outcome = "DatabaseError"
    /\ collection = existing
    /\ life[request[2]] = "live"
    /\ \E id \in IdsOf(cls) : life[id] = "deleted"
    /\ Cardinality(collection) > 1

\* ------------------------------------------------------- Linker
MaxLinked == 2    \* length of the list of ids handed to Linker.link

LinkTypes == {"str", "int", "FileRecord"}
LinkIds == {"id1", "id2"}
Extras == {{}, {"key"}}

\* The index arguments: ints, and the strings the command line hands over.
Indexes ==
    {IntValue(n) : n \in (0 - 1)..(MaxLinked + 1)}
    \cup {StrValue(s) : s \in {<<"0">>, <<"1">>, <<"2">>, <<"3">>, <<"-", "1">>,
                               <<" ", "1">>, <<"2", ".", "0">>,
                               <<"2", ".", "3">>, <<"x">>, <<>>}}

\* The number a non-empty string of digits spells.
RECURSIVE digits_value(_)
digits_value(s) ==
    IF s = <<>> THEN 0
    ELSE 10 * digits_value(SubSeq(s, 1, Len(s) - 1))
         + (CHOOSE d \in 0..9 : DigitChars[d + 1] = s[Len(s)])

\* str.strip() of the blanks around a string.
RECURSIVE strip(_)
strip(s) ==
    IF s # <<>> /\ Head(s) = " " THEN strip(Tail(s))
    ELSE IF s # <<>> /\ s[Len(s)] = " " THEN strip(SubSeq(s, 1, Len(s) - 1))
    ELSE s

\* int(index): an int is itself; a string is stripped and read as an
\* optional sign and decimal digits, anything else is a ValueError.
int(index) ==
    IF index.kind = "int" THEN [n |-> index.n, raised |-> "none"]
    ELSE LET s == strip(index.s)
             signed == s # <<>> /\ Head(s) \in {"-", "+"}
             body == IF signed THEN Tail(s) ELSE s
         IN  IF body = <<>> \/ \E i \in 1..Len(body) : body[i] \notin Digits
             THEN [n |-> 0, raised |-> "ValueError"]
             ELSE [n |-> IF signed /\ Head(s) = "-"
                         THEN 0 - digits_value(body) ELSE digits_value(body),
                   raised |-> "none"]

LinkerError(link) == [link |-> link, returned |-> "None", raised |-> "LinkerError"]

\* A wrong resolve: the index is taken as counting from 0.
resolveFromZero(link, type_, index) ==
    IF int(index).raised # "none" THEN LinkerError(link)
    ELSE IF link = NoLink THEN LinkerError(link)
    ELSE IF type_ # link.type_ THEN LinkerError(link)
    ELSE IF int(index).n < 0 \/ int(index).n >= Len(link.ids)
    THEN LinkerError(link)
    ELSE [link |-> link, returned |-> link.ids[int(index).n + 1],
          raised |-> "none"]

\* Linker.resolve: the link it leaves, and the id it returns or LinkerError.
resolve(link, type_, index) ==
    IF int(index).raised # "none" THEN LinkerError(link)
    ELSE IF link = NoLink THEN LinkerError(link)
    ELSE IF type_ # link.type_ THEN LinkerError(link)
    ELSE IF int(index).n < 1 \/ int(index).n > Len(link.ids)
    THEN LinkerError(link)
    ELSE [link |-> link, returned |-> link.ids[int(index).n],
          raised |-> "none"]

\* Linker.link(type_, ids, extra)
Link ==
    /\ \E type_ \in LinkTypes, ids \in SeqsUpTo(LinkIds, MaxLinked), e \in Extras :
          /\ link_' = [type_ |-> type_, ids |-> ids]
          /\ extra' = e
          /\ linked' = [type_ |-> type_, ids |-> ids]
    /\ resolved' = NoResolve
    /\ UNCHANGED <<loopVars, dbVars, walkVars, systemVars, constructed, request>>

\* Linker.unlink()
Unlink ==
    /\ link_' = NoLink
    /\ extra' = {}
    /\ linked' = NoLink
    /\ resolved' = NoResolve
    /\ UNCHANGED <<loopVars, dbVars, walkVars, systemVars, constructed, request>>

\* Linker.resolve(type_, index)
Resolve ==
    /\ \E type_ \in LinkTypes, index \in Indexes :
          LET out == resolve(link_, type_, index)
          IN  /\ link_' = out.link
              /\ resolved' = [type_ |-> type_, index |-> index,
                              returned |-> out.returned, raised |-> out.raised]
    /\ UNCHANGED <<loopVars, dbVars, walkVars, systemVars, constructed, request, extra,
                   linked>>

InitLinker ==
    /\ cls = "FileRecord"
    /\ NoReconciliation
    /\ NoWalk
    /\ NoCollection
    /\ NoTools

NextLinker == Link \/ Unlink \/ Resolve

SpecLinker == InitLinker /\ [][NextLinker]_vars

\* ------------------------------------------------------- Linker claim
\* The index stands for the integer k: it is the int k, or a string that,
\* blanks aside, is the decimal form of k.
Denotes(index, k) ==
    \/ index.kind = "int" /\ index.n = k
    \/ index.kind = "str"
           /\ SelectSeq(index.s, LAMBDA ch : ch # " ") = str_int(k)

\* C20: the last resolve returned ids[index-1] of the last link call
\* exactly when a link was set, its type was the one asked for and the
\* index stood for an integer from 1 to len(ids); in every other case it
\* raised LinkerError; and the link is what the last link or unlink call
\* made it, whatever was resolved since.
C20_ResolveByIndex ==
    /\ link_ = linked
    /\ resolved # NoResolve =>
           LET Fits(k) == /\ linked # NoLink
                          /\ resolved.type_ = linked.type_
                          /\ Denotes(resolved.index, k)
           IN  /\ \A k \in 1..Len(linked.ids) :
                      Fits(k) => /\ resolved.raised = "none"
                                 /\ resolved.returned = linked.ids[k]
               /\ (~\E k \in 1..Len(linked.ids) : Fits(k)) =>
                      /\ resolved.raised = "LinkerError"
                      /\ resolved.returned = "None"

\* The second of two linked ids was resolved from the string "2".
C20_Witness ==
    /\ Len(linked.ids) = 2
    /\ linked.ids[1] # linked.ids[2]
    /\ resolved.index = StrValue(<<"2">>)
    /\ resolved.raised = "none"
    /\ resolved.returned = linked.ids[2]

\* ------------------------------------------------------- behaviour of the walk
\* The errors a validator left in a sequence of errors.
ErrorsBy(errors, by) == SelectSeq(errors, LAMBDA e : e.by = by)

Ran(f) == \E i \in 1..Len(ran) : ran[i].f = f

\* C22 (as claimed): a file named .DS_Store is skipped: it is not among the
\* files of the directory the validators see, and no error of the
\* directory is about it.
C22_NoiseIsSkipped ==
    walked > 0 =>
        /\ \A i \in 1..Len(directory.filepaths) :
               path_name(directory.filepaths[i]) # DS_Store
        /\ \A i \in 1..Len(directory.errors) :
               ~EndsWith(directory.errors[i].at, DS_Store)

\* C23 (as claimed): in a directory thoughts/Y the parent-year validator
\* leaves no error exactly when the name of every file starts with Y, and
\* every error it leaves names the year Y.
C23_ParentYearPrefix ==
    LET parts == relative_to_root(directory.path)
        by == ErrorsBy(directory.errors, "yearly_directory_parent_year_validator")
    IN  (/\ walked > 0
         /\ Len(parts) = 2
         /\ parts[1] = thoughts
         /\ Ran("yearly_directory_parent_year_validator"))
        => /\ by = <<>> <=>
                  \A i \in 1..Len(directory.filepaths) :
                      StartsWith(path_name(directory.filepaths[i]), parts[2])
           /\ \A i \in 1..Len(by) : by[i].about = parts[2]

\* A 4-digit year from 1000 to 9999.
IsFourDigitYear(n) ==
    /\ Len(n) = 4
    /\ n[1] \in Digits \ {"0"}
    /\ \A i \in 2..4 : n[i] \in Digits

\* C24 (as claimed): the year-named-subdirectories validator leaves one
\* error for every subdirectory whose name is not a 4-digit year from 1000
\* to 9999, and none for the others.
C24_FourDigitYear ==
    (walked > 0 /\ Ran("yearly_directory_subdirectories_validator")) =>
        Len(ErrorsBy(directory.errors, "yearly_directory_subdirectories_validator"))
            = Cardinality({i \in 1..Len(directory.subdirectories) :
                  ~IsFourDigitYear(path_name(directory.subdirectories[i]))})

\* The files of the last directory that File.match tagged as root file.
RootFiles ==
    {i \in 1..Len(listed) :
        \E k \in 1..Len(FileKinds) :
            FileKinds[k].name = listed[i] /\ FileKinds[k].file_tag = "root_file"}

KindOf(name) == CHOOSE k \in 1..Len(FileKinds) : FileKinds[k].name = name

Matched == SelectSeq(listed, LAMBDA n : FileKinds[KindOf(n)].file_tag # "none")

Recorded ==
    SelectSeq(Matched, LAMBDA n : /\ FileKinds[KindOf(n)].parses
                                  /\ FileKinds[KindOf(n)].file_tag \in RecordedTags)

DistinctItems == Cardinality(SeqIds(items)) = Len(items)

\* C26 (as claimed): a reconciliation of FileRecords whose store holds the
\* record of a file that is gone returns normally, and each such record
\* that is not incoming again is deleted from the store and returned in
\* deleted.
C26_VanishedFileIsDeleted ==
    (/\ cls = "FileRecord"
     /\ outcome # "idle"
     /\ DistinctItems
     /\ \E d \in existing : mtime[d.id_] = Missing)
    => /\ outcome = "returned"
       /\ \A d \in existing :
              (mtime[d.id_] = Missing /\ d.id_ \notin SeqIds(items)) =>
                  /\ d.id_ \in SeqIds(deleted)
                  /\ ~exists(collection, d.id_)

\* C27 (as claimed): every call on records of the stub type returns
\* normally and every id, persisted or incoming, is in exactly one of the
\* four returned sequences, also when two incoming records share an id.
C27_DuplicateIdsAreClassified ==
    (cls = "DatabaseRecordStub" /\ outcome # "idle") =>
        /\ outcome = "returned"
        /\ \A id \in IdSet(existing) \cup SeqIds(items) :
               Cardinality({s \in {"saved", "updated", "deleted", "unchanged"} :
                   id \in SeqIds(CASE s = "saved" -> saved
                                   [] s = "updated" -> updated
                                   [] s = "deleted" -> deleted
                                   [] OTHER -> unchanged)}) = 1

\* C28: a returned call issued no mutation for the id of a record it
\* reports unchanged and left the document of that id as it was; and in
\* the mutations a call issued no save or update follows a delete: the
\* deletes come when every incoming record has been processed.
C28_NoWriteForUnchanged ==
    /\ outcome = "returned" =>
           \A i \in 1..Len(unchanged) :
               /\ \A k \in 1..Len(ops) : ops[k][2] # unchanged[i].id_
               /\ {d \in collection : d.id_ = unchanged[i].id_}
                      = {d \in existing : d.id_ = unchanged[i].id_}
    /\ \A j, k \in 1..Len(ops) :
           (j < k /\ ops[j][1] = "delete") => ops[k][1] = "delete"
    /\ outcome = "returned" =>
           Len(SelectSeq(ops, LAMBDA op : op[1] # "delete"))
               = Len(saved) + Len(updated)

\* A call saved one record, left one unchanged and then deleted a third.
C28_Witness ==
    /\ outcome = "returned"
    /\ Len(unchanged) = 1
    /\ Len(saved) = 1
    /\ Len(deleted) = 1
    /\ Len(ops) = 2
    /\ ops[1][1] = "save"
    /\ ops[2][1] = "delete"
    /\ exists(collection, unchanged[1].id_)

\* C30: when collect_files has returned neither errors nor records,
\* _collect_files calls no store operation: save_update_delete has not
\* been called, no mutation was issued, and every record persisted before
\* is still persisted; "No files found." is all that happens.
C30_EmptyResultMutatesNothing ==
    /\ (/\ caller = "PurposeSystem"
        /\ walk = "returned"
        /\ result.errors = <<>>
        /\ result.records = <<>>) =>
           /\ calls = 0
           /\ ops = <<>>
           /\ collection = before
           /\ outcome = "idle"
           /\ answer \in {"collecting", "no_files"}
    /\ answer = "no_files" =>
           /\ walk = "returned"
           /\ result.errors = <<>> /\ result.records = <<>>
           /\ collection = before

\* An empty directory was collected over a store that holds records, and
\* the records are all still there.
C30_Witness ==
    /\ answer = "no_files"
    /\ before # {}
    /\ collection = before
    /\ calls = 0
    /\ walked > 0

\* ------------------------------------------------------- the ask loop
\* SystemABC.start, _handle_ask and exit of a PurposeSystem.  An ask is the
\* line the user typed, a sequence of characters.
MaxAsks == 3    \* lines Typer.input returns during one start call

space == <<" ">>

\* requested_ask.split(" ")
RECURSIVE split(_)
split(s) ==
    IF \A k \in 1..Len(s) : s[k] # " " THEN <<s>>
    ELSE LET k == CHOOSE i \in 1..Len(s) :
                      s[i] = " " /\ \A j \in 1..(i - 1) : s[j] # " "
         IN  <<SubSeq(s, 1, k - 1)>> \o split(SubSeq(s, k + 1, Len(s)))

\* seq[a:b]
slice(seq, a, b) == SubSeq(seq, a + 1, IF b < Len(seq) THEN b ELSE Len(seq))

exit_ask == <<"e", "x", "i", "t">>
cs_ask == <<"c", "s">>
help_ask == <<"h", "e", "l", "p">>
archive_ask == <<"a", "r", "c", "h", "i", "v", "e">>
farewell_ask == <<"f", "a", "r", "e", "w", "e", "l", "l">>
collect_ask == <<"c", "o", "l", "l", "e", "c", "t">>
ls_word == <<"l", "s">>
essay_word == <<"e", "s", "s", "a", "y">>
subject_word == <<"s", "u", "b", "j", "e", "c", "t">>
all_word == <<"a", "l", "l">>
export_word == <<"e", "x", "p", "o", "r", "t">>
now_word == <<"n", "o", "w">>

\* An Ask: its definition, the method it names, and how many arguments the
\* method requires and accepts.
Ask(definition, method_name, required, accepted) ==
    [definition |-> definition, method_name |-> method_name,
     required |-> required, accepted |-> accepted]

NoAsk == Ask(<<>>, "None", 0, 0)

\* SystemABC.asks[BASE_SYSTEM], filled by the decorators of System.
base_asks ==
    {Ask(cs_ask, "_current_system", 0, 0),
     Ask(help_ask, "_help", 0, 0),
     Ask(archive_ask, "_archive", 0, 0),
     Ask(exit_ask, "_exit", 0, 0),
     Ask(farewell_ask, "_adios", 0, 0)}

\* SystemABC.asks["PurposeSystem"], filled by the decorators of
\* PurposeSystem.
purpose_asks ==
    {Ask(collect_ask, "_collect_file", 1, 1),
     Ask(join(space, <<collect_ask, subject_word>>),
         "_collect_subject_files", 1, 1),
     Ask(join(space, <<collect_ask, all_word>>), "_collect_all_files", 0, 0),
     Ask(join(space, <<ls_word, essay_word>>), "_list_essays", 0, 0),
     Ask(join(space, <<export_word, essay_word>>), "_export_essay", 1, 1)}

\* asks.get(definition)
asks_get(asks, definition) ==
    IF \E a \in asks : a.definition = definition
    THEN CHOOSE a \in asks : a.definition = definition
    ELSE NoAsk

\* SystemABC.__match_ask: the two-word ask before the one-word ask.
match_ask(requested_ask, asks) ==
    LET ask_components == split(requested_ask)
        two == asks_get(asks, join(space, slice(ask_components, 0, 2)))
        one == asks_get(asks, join(space, slice(ask_components, 0, 1)))
    IN  IF two # NoAsk
        THEN [ask |-> two,
              passed |-> slice(ask_components, 2, Len(ask_components))]
        ELSE IF one # NoAsk
        THEN [ask |-> one,
              passed |-> slice(ask_components, 1, Len(ask_components))]
        ELSE [ask |-> NoAsk, passed |-> <<>>]

\* The length check of SystemABC.__parse_arguments, which raises
\* SystemError_ ("Invalid number of arguments").
parse_arguments_raises(ask, passed_arguments) ==
    \/ Len(passed_arguments) < ask.required
    \/ Len(passed_arguments) > ask.accepted

\* What an ask of the system can see and change: _on, the Linker, the
\* histories, and the exception that leaves start, if any.
LoopState(on, link, ex, rd, hd, xs) ==
    [on |-> on, link |-> link, extra |-> ex, read |-> rd, handled |-> hd,
     exited |-> xs, raised |-> "none"]

\* An exit that unlinks and leaves the system on.
exitStaysOn(st) ==
    [st EXCEPT !.exited = Append(@, [link |-> st.link,
                                     read |-> Len(st.read),
                                     handled |-> Len(st.handled)]),
               !.link = NoLink,
               !.extra = {}]

\* SystemABC.exit: Typer.header, Linker.unlink(), self._on = False.
exit(st) ==
    [st EXCEPT !.exited = Append(@, [link |-> st.link,
                                     read |-> Len(st.read),
                                     handled |-> Len(st.handled)]),
               !.link = NoLink,
               !.extra = {},
               !.on = FALSE]

\* What database.list(FileRecord, predicate) does in _list_essays: it
\* raises, or it returns the essays, here their ids in creation order.
Listings ==
    {[raised |-> "FileNotFoundError", essays |-> <<>>]}
        \cup {[raised |-> "none", essays |-> ids] :
                  ids \in SeqsUpTo(LinkIds, MaxLinked)}

\* PurposeSystem._list_essays
list_essays(st, essays_listed) ==
    IF essays_listed.raised # "none"
    THEN [st EXCEPT !.raised = essays_listed.raised]
    ELSE IF essays_listed.essays = <<>> THEN st
    ELSE [st EXCEPT !.link = [type_ |-> "FileRecord",
                             ids |-> essays_listed.essays],
                    !.extra = {}]

\* getattr(self, ask.method_name)(*arguments) for the asks without
\* arguments; _current_system, _help and _archive only print.
call_method(st, method_name, essays_listed) ==
    CASE method_name = "_exit" -> exit(st)
      [] method_name = "_adios" -> [st EXCEPT !.raised = "SystemExit"]
      [] method_name = "_list_essays" -> list_essays(st, essays_listed)
      [] OTHER -> st

\* SystemABC._handle_ask(requested_ask)
handle_ask(st, requested_ask, essays_listed) ==
    LET called == [st EXCEPT !.handled = Append(@, requested_ask)]
        base == match_ask(requested_ask, base_asks)
        match == IF base.ask # NoAsk THEN base
                 ELSE match_ask(requested_ask, purpose_asks)
    IN  IF match.ask = NoAsk THEN called
        ELSE IF parse_arguments_raises(match.ask, match.passed) THEN called
        ELSE call_method(called, match.ask.method_name, essays_listed)

\* The lines of the sample: every ask without arguments but the
\* collecting ones, asks with a wrong number of arguments, unknown asks.
AskLines ==
    {exit_ask, cs_ask, help_ask, archive_ask, farewell_ask,
     join(space, <<ls_word, essay_word>>),
     join(space, <<exit_ask, now_word>>),
     exit_ask \o space,
     space \o exit_ask,
     ls_word,
     collect_ask}

\* init_command: None, or one of the lines.
InitCommands == {<<>>} \cup AskLines

\* The state and the position after a part of start that ends at the
\* while test, or with the exception that leaves start.
Arrive(st) ==
    /\ _on' = st.on
    /\ link_' = st.link
    /\ extra' = st.extra
    /\ linked' = st.link
    /\ resolved' = IF st.link = link_ THEN resolved ELSE NoResolve
    /\ read' = st.read
    /\ handled' = st.handled
    /\ exited' = st.exited
    /\ pc' = IF st.raised # "none" THEN st.raised ELSE "while"
    /\ UNCHANGED <<dbVars, walkVars, systemVars, constructed, request>>

\* start(init_command) up to the first test of the loop: self._on = True,
\* _on_start(), and the init command, if there is one, handled.
Start ==
    /\ pc = "constructed"
    /\ \E init_command \in InitCommands, essays_listed \in Listings :
          LET st == LoopState(TRUE, link_, extra, read, handled, exited)
          IN  Arrive(IF init_command # <<>>
                     THEN handle_ask(st, init_command, essays_listed)
                     ELSE st)

\* while self._on
While ==
    /\ pc = "while"
    /\ pc' = IF _on THEN "input" ELSE "returned"
    /\ UNCHANGED <<dbVars, walkVars, systemVars, constructed, request, link_,
                   extra, linked, resolved, _on, read, handled, exited>>

\* One pass of the loop body: Typer.input returns the next line, which is
\* never empty as the input is not cancellable, and the line is handled.
Input ==
    /\ pc = "input"
    /\ Len(read) < MaxAsks
    /\ \E ask \in AskLines, essays_listed \in Listings :
          LET st == LoopState(_on, link_, extra, Append(read, ask), handled,
                              exited)
          IN  Arrive(IF ask # <<>> THEN handle_ask(st, ask, essays_listed) ELSE st)

InitSystem ==
    /\ cls = "FileRecord"
    /\ NoReconciliation
    /\ NoWalk
    /\ NoCollection
    /\ NoTools

NextSystem == Start \/ While \/ Input

SpecSystem == InitSystem /\ [][NextSystem]_vars

\* The interpreter goes on after a handler returns: the test of the loop
\* is taken whenever start stands at it.  Nothing makes the user type.
SpecSystemLive == SpecSystem /\ WF_vars(While)

\* ------------------------------------------------------- ask loop claim
\* The asks handled after the init command are the lines read, in order,
\* each handled once.
OneAtATime ==
    \E k \in {0, 1} :
        /\ Len(handled) = k + Len(read)
        /\ \A i \in 1..Len(read) : handled[k + i] = read[i]

\* exit has been called: the system is off, the Linker is unlinked,
\* nothing was read or handled since, and start is at the test of the
\* loop or has returned.
AfterExit ==
    exited # <<>> =>
        /\ Len(exited) = 1
        /\ _on = FALSE
        /\ link_ = NoLink
        /\ extra = {}
        /\ Len(read) = exited[1].read
        /\ Len(handled) = exited[1].handled
        /\ handled[Len(handled)] = exit_ask
        /\ pc \in {"while", "returned"}

\* C21: after start the loop handles the asks one at a time, each line
\* read being handled before the next is read; once an exit ask is handled
\* the system is off (_on is False), the Linker is unlinked, no further ask
\* is read or handled, and start returns.
C21_ExitEndsTheLoop ==
    /\ [](OneAtATime /\ AfterExit)
    /\ (exited # <<>>) ~> (pc = "returned")

\* start has returned after an exit ask that found the Linker linked and
\* was not the first ask handled.
C21_Witness ==
    /\ pc = "returned"
    /\ Len(exited) = 1
    /\ exited[1].link # NoLink
    /\ Len(handled) >= 2
    /\ link_ = NoLink
    /\ _on = FALSE

====
